---- MODULE Spec2Model ----
(***************************************************************************)
(* Yoink-Core job orchestration: the JobStore (api/jobs.py), the           *)
(* sequential ExtractionWorker (api/worker.py) with its pipeline thread,   *)
(* the asyncio event loop and the aiosqlite connection queue that carry    *)
(* its writes, and the rename and delete routes (api/routes.py) over the    *)
(* local store and the remote Supabase store (api/user_jobs.py).           *)
(***************************************************************************)
EXTENDS Integers, Sequences, FiniteSets, TLC

\* ---------------------------------------------------------------- bounds
\* Number of job ids uuid4 hands out in a run.
MaxJobs == 2
\* Number of start() calls in a run (each creates one consumer task).
MaxStarts == 2
\* Largest page count a document has.
MaxPages == 1
\* Largest component count a pipeline result reports (the smallest is 1).
MaxComps == 1
\* Longest base name a rename request carries.
MaxNameLen == 1
MaxComponents == 9
MaxFailures == 3
MaxAge == 2
MaxHours == 2
MaxTotal == 3
IdLen == 2
MaxFeedback == 1
MaxResultPages == 2
MaxPageComps == 2

Jobs == 1..MaxJobs
TaskIds == 1..MaxStarts

\* user_id None (a guest job) and the resolved user identities.
NoUser == "none"
Users == {"u1", "u2"}
Owners == {NoUser} \cup Users
\* The worker never reads user_id: its specifications take uploads from a guest
\* and from one user.
WorkerUploaders == {NoUser, "u1"}

\* jobs.py:41
VALID_STATUSES == {"queued", "processing", "completed", "failed", "delivered"}

\* NULL for the nullable TEXT columns result_path and error.
Null == "null"
\* str(e) of an exception raised by run_pipeline / by a store call.
PipelineError == "pipeline error"
StoreError == "store error"

\* routes.py:41, routes.py:44
MAX_USER_SLOTS == 5
MAX_BASE_NAME_LENGTH == 120

\* A file name or title: its stem, a sequence of characters, and its suffix.
Chars == {"a", " ", "/"}
UploadName == [base |-> <<"d">>, ext |-> ".png"]
\* UPLOAD_DIR / upload_id / file.filename, the upload_id a fresh uuid4.
UploadPath(n, name) == [dir |-> n, name |-> name]
\* No job id (a request that names or creates none).
NoJob == 0
\* A job id string that uuid.UUID() rejects.
BadId == 0 - 1

VARIABLES
    jobs,       \* the jobs table: job id -> row (DOMAIN jobs = the ids present)
    nextId,     \* the next id create_job generates
    queue,      \* ExtractionWorker._queue
    task,       \* ExtractionWorker._task: a task id, or 0 for None
    tasks,      \* every consumer task created: task id -> [pc, job]
    nstarted,   \* number of consumer tasks created so far
    stopper,    \* the task a stop() call in progress is awaiting, or 0
    thread,     \* the to_thread pipeline call of each job: [st, rep, tot]
    loopq,      \* callbacks the pipeline threads posted to the event loop
    dbq,        \* operations queued on the aiosqlite connection thread
    outdirs,    \* job ids whose output directory exists
    uploads,    \* job ids whose upload file exists
    results,    \* job ids whose result JSON exists in the output directory
    supabase,   \* app.state.supabase: "client", or Null when not configured
    remote,     \* the Supabase jobs table: job id -> [user_id, title]
    objects,    \* Supabase Storage: the objects, as <<user, job id, component>>
    resp,       \* the latest request and its answer: [route, user, job, status]
    calls,      \* the store and remote calls that request made, in order
    interrupted, \* history: [job, pc] of each consumer stop() cancelled inside a job
    lost,       \* history: jobs whose 'failed' write raised
    sem,        \* upload_components_to_supabase: free permits of `sem`
    uptasks,    \* its `tasks`: component -> [st, attempt, calls, stored]
    meta,       \* its `meta`: the components it returns metadata for, in order
    batch,      \* the call itself: [st, err, failed]
    now,        \* the UTC clock: [h, us], hours and microseconds
    columns,    \* the columns of the jobs table on disk (PRAGMA table_info)
    conn,       \* JobStore._db: "open" after init(), "closed" before
    rdel,       \* delete_user_job in progress: [pc, user, job, files, deleted, removed]
    result_data, \* the result JSON get_result_components reads: pages of component ids
    page,       \* the latest ComponentBatchResponse
    fetched,    \* what a client paging from offset 0 has collected so far
    request,    \* the job id string the latest request carried, as sent
    feedback,   \* the feedback table: the job_id of each row, in insertion order
    body,       \* the base_name a client's rename requests carry, as sent
    callers,    \* task -> the store call it is in, and the await it has reached
    disk,       \* the jobs table as of the connection's latest commit
    journal,    \* the statements the connection has executed, oldest first
    fs          \* a directory tree cleanup_job_files works on: path -> "file" or "dir"

upVars == <<sem, uptasks, meta, batch>>
schemaVars == <<columns, conn>>
pageVars == <<result_data, page, fetched>>
connVars == <<callers, disk, journal>>
idVars == <<request, feedback, fs, body, connVars>>
extVars == <<now, schemaVars, rdel, pageVars>>
apiVars == <<supabase, idVars, extVars, upVars, remote, objects, resp, calls>>
workerVars == <<nextId, queue, task, tasks, nstarted, stopper, thread, loopq, dbq,
                interrupted, lost>>

vars == <<jobs, nextId, queue, task, tasks, nstarted, stopper,
          thread, loopq, dbq, outdirs, uploads, results,
          supabase, remote, objects, resp, calls, interrupted, lost,
          sem, uptasks, meta, batch,
          now, columns, conn, rdel, result_data, page, fetched, request, feedback, fs, body, callers, disk, journal>>

\* ------------------------------------------------------------- JobStore

\* datetime.isoformat() of a UTC time, as the characters stored in the TEXT
\* column (their code points): the hour digit, ".ffffff" only when the
\* microsecond is not 0, then the "+00:00" offset.
isoformat(t) ==
    <<48 + t.h>> \o (IF t.us = 0 THEN <<>> ELSE <<46, 48 + t.us>>) \o <<43>>

\* now - timedelta(hours = n)
HoursBefore(t, n) == [h |-> t.h - n, us |-> t.us]

\* SQLite's `<` on TEXT (BINARY collation): the first differing character
\* decides, a proper prefix is smaller.
RECURSIVE TextLess(_, _)
TextLess(a, b) ==
    IF b = <<>> THEN FALSE
    ELSE IF a = <<>> THEN TRUE
    ELSE IF Head(a) # Head(b) THEN Head(a) < Head(b)
    ELSE TextLess(Tail(a), Tail(b))

\* The row create_job would insert if it dropped the owner.
NewRowWithoutOwner(filename, upload_path, user) ==
    [user_id |-> NoUser, status |-> "queued", filename |-> filename,
     upload_path |-> upload_path, result_path |-> Null, error |-> Null,
     current_page |-> 0, total_pages |-> 0, total_components |-> 0,
     created_at |-> isoformat(now)]

\* The row create_job inserts; the other columns take the schema defaults.
NewRow(filename, upload_path, user) ==
    [user_id |-> user, status |-> "queued", filename |-> filename,
     upload_path |-> upload_path, result_path |-> Null, error |-> Null,
     current_page |-> 0, total_pages |-> 0, total_components |-> 0,
     created_at |-> isoformat(now)]

\* INSERT INTO jobs (id, user_id, status, filename, upload_path, ...) under the
\* id uuid4 generated.
create_job(db, id, filename, upload_path, user) ==
    (id :> NewRow(filename, upload_path, user)) @@ db

\* SELECT * FROM jobs WHERE id = ?: the row, or nothing (None).
get_job(db, id) == IF id \in DOMAIN db THEN <<db[id]>> ELSE <<>>

\* UPDATE jobs SET status = ?, <kw> WHERE id = ?  (zero rows when the id is absent)
update_status_or_insert(db, id, status, kw) ==
    (id :> [NewRow(UploadName, UploadPath(id, UploadName), NoUser) EXCEPT !.status = status]) @@ db
update_status(db, id, status, kw) ==
    IF id \in DOMAIN db
    THEN [db EXCEPT ![id] =
            [f \in DOMAIN db[id] |->
                IF f = "status" THEN status
                ELSE IF f \in DOMAIN kw THEN kw[f]
                ELSE db[id][f]]]
    ELSE db

\* `assert status in VALID_STATUSES`: update_status raises AssertionError
\* before it builds any statement.
StatusNeverRejected(status) == FALSE
StatusRejected(status) == status \notin VALID_STATUSES

\* UPDATE jobs SET current_page = ?, total_pages = ? WHERE id = ?
update_progress(db, id, cur, tot) ==
    IF id \in DOMAIN db
    THEN [db EXCEPT ![id].current_page = cur, ![id].total_pages = tot]
    ELSE db

\* DELETE FROM jobs WHERE id = ?
delete_job(db, id) == [j \in DOMAIN db \ {id} |-> db[j]]

\* SELECT ... FROM jobs WHERE created_at < ? AND user_id IS NULL, the cutoff
\* being (now - max_age_hours).isoformat()
ExpiredOfAnyOwner(db, max_age_hours) ==
    {id \in DOMAIN db :
        TextLess(db[id].created_at, isoformat(HoursBefore(now, max_age_hours)))}
Expired(db, max_age_hours) ==
    {id \in DOMAIN db :
        /\ TextLess(db[id].created_at, isoformat(HoursBefore(now, max_age_hours)))
        /\ db[id].user_id = NoUser}

\* get_old_job_paths: id, upload_path and result_path of the selected rows.
get_old_job_paths(db, max_age_hours) ==
    {[id |-> id, upload_path |-> db[id].upload_path, result_path |-> db[id].result_path] :
        id \in Expired(db, max_age_hours)}

\* cleanup_old_jobs: DELETE FROM jobs WHERE id IN (the selected ids)
cleanup_old_jobs_sparing_running(db, max_age_hours) ==
    [j \in DOMAIN db \ {e \in Expired(db, max_age_hours) : db[e].status # "processing"} |-> db[j]]
cleanup_old_jobs(db, max_age_hours) ==
    [j \in DOMAIN db \ Expired(db, max_age_hours) |-> db[j]]

\* UPDATE jobs SET filename = ? WHERE id = ?
rename_job(db, id, filename) ==
    IF id \in DOMAIN db THEN [db EXCEPT ![id].filename = filename] ELSE db

\* ---------------------------------------------------------------- Init

IdleTask == [pc |-> "unborn", job |-> 0]
IdleThread == [st |-> "none", rep |-> 0, tot |-> 0]

EmptyTable == [j \in {} |-> NewRow(UploadName, UploadPath(0, UploadName), NoUser)]
\* The tasks that call the store: the worker's consumer and a request handler.
CallerTasks == {"worker", "handler"}
NoCall == [pc |-> "idle"]
NoCalls == [t \in CallerTasks |-> NoCall]

NoRemote == [j \in {} |-> [user_id |-> NoUser, title |-> UploadName]]
\* No call of upload_components_to_supabase yet: no task, no error.
WaitingUpload == [st |-> "waiting", attempt |-> 0, calls |-> 0, stored |-> 0]
NoUploads == [c \in {} |-> WaitingUpload]
NoBatch == [st |-> "idle", err |-> <<>>, failed |-> 0]

\* The process starts at some hour of the day, with the schema of JOBS_SCHEMA,
\* no remote delete under way and no component batch served.
StartTime == [h |-> MaxAge, us |-> 0]
JobColumns == {"user_id", "status", "filename", "upload_path", "result_path", "error",
               "current_page", "total_pages", "total_components", "created_at"}
NoDelete == [pc |-> "idle", user |-> NoUser, job |-> 0, files |-> {}, deleted |-> 0,
             removed |-> 0]
\* A tree of the base directory alone.
NoFiles == (<<>> :> "dir")
\* No sequential fetch started.
NoFetch == [st |-> "idle", limit |-> 0, offset |-> 0, got |-> <<>>]
NoPage == [offset |-> 0, limit |-> 0, total |-> 0, has_more |-> FALSE, components |-> <<>>]

NoResponse == [route |-> "none", user |-> NoUser, job |-> 0, status |-> 0]

\* The state after startup, with the Supabase client configured or not.
InitWith(client) ==
    /\ jobs = EmptyTable
    /\ nextId = 1
    /\ queue = <<>>
    /\ callers = NoCalls
    /\ disk = EmptyTable
    /\ journal = <<>>
    /\ task = 0
    /\ tasks = [t \in TaskIds |-> IdleTask]
    /\ nstarted = 0
    /\ stopper = 0
    /\ thread = [j \in Jobs |-> IdleThread]
    /\ loopq = <<>>
    /\ dbq = <<>>
    /\ outdirs = {}
    /\ uploads = {}
    /\ results = {}
    /\ supabase = client
    /\ remote = NoRemote
    /\ objects = {}
    /\ resp = NoResponse
    /\ calls = <<>>
    /\ interrupted = {}
    /\ lost = {}
    /\ sem = 0
    /\ uptasks = NoUploads
    /\ meta = <<>>
    /\ batch = NoBatch
    /\ now = StartTime
    /\ columns = JobColumns
    /\ conn = "open"
    /\ rdel = NoDelete
    /\ result_data = <<>>
    /\ page = NoPage
    /\ fetched = NoFetch
    /\ request = <<>>
    /\ feedback = <<>>
    /\ fs = NoFiles
    /\ body = <<>>

Init == InitWith("client")

\* ------------------------------------------------- extract (routes.py)

\* asyncio.Queue.put on the unbounded queue.
enqueueTwice(q, id) == Append(Append(q, id), id)
enqueue(q, id) == Append(q, id)

\* A request's answer and the log of the calls it made (ok: the call returned).
Call(op, returned) == [op |-> op, ok |-> returned]
Reply(route, requester, id, status, log) ==
    /\ resp' = [route |-> route, user |-> requester, job |-> id, status |-> status]
    /\ calls' = log

\* SELECT count of the user's rows in the Supabase jobs table.
count_user_jobs(tbl, user) == Cardinality({j \in DOMAIN tbl : tbl[j].user_id = user})

\* `slot_count >= MAX_USER_SLOTS`
SlotsUsedUpOffByOne(tbl, user) == count_user_jobs(tbl, user) > MAX_USER_SLOTS
SlotsUsedUp(tbl, user) == count_user_jobs(tbl, user) >= MAX_USER_SLOTS

\* extract: an authenticated upload whose user's slots are used up is answered
\* 409; otherwise the upload is saved, create_job inserts a 'queued' row under
\* a fresh id and worker.enqueue(job_id) hands the id to the worker.
Extract(user) ==
    LET counted == user # NoUser /\ supabase # Null
        c0 == IF counted THEN <<Call("count_user_jobs", TRUE)>> ELSE <<>>
    IN  IF counted /\ SlotsUsedUp(remote, user)
        THEN /\ Reply("extract", user, NoJob, 409, c0)
             /\ UNCHANGED <<jobs, nextId, queue, uploads>>
             /\ UNCHANGED <<task, tasks, nstarted, stopper, thread, loopq, dbq, outdirs,
                            results, interrupted, lost, supabase, idVars, extVars, upVars,
                            remote, objects>>
        ELSE /\ nextId <= MaxJobs
             /\ uploads' = uploads \cup {nextId}
             /\ jobs' = create_job(jobs, nextId, UploadName,
                                   UploadPath(nextId, UploadName), user)
             /\ nextId' = nextId + 1
             /\ queue' = enqueue(queue, nextId)
             /\ Reply("extract", user, nextId, 200,
                      c0 \o <<Call("create_job", TRUE), Call("enqueue", TRUE)>>)
             /\ UNCHANGED <<task, tasks, nstarted, stopper, thread, loopq, dbq, outdirs,
                            results, interrupted, lost, supabase, idVars, extVars, upVars,
                            remote, objects>>

\* JobStore.delete_job called by a request handler or by the retention sweep.
DeleteJob(id) ==
    /\ id \in DOMAIN jobs
    /\ jobs' = delete_job(jobs, id)
    /\ UNCHANGED <<nextId, queue, task, tasks, nstarted, stopper,
                   thread, loopq, dbq, outdirs, uploads, results, interrupted, lost,
                   apiVars>>

\* --------------------------------------------- ExtractionWorker lifecycle

\* start(): create_task(_process_loop()) and keep it in _task, whatever _task held.
Start ==
    /\ nstarted < MaxStarts
    /\ nstarted' = nstarted + 1
    /\ tasks' = [tasks EXCEPT ![nstarted + 1] = [pc |-> "wait", job |-> 0]]
    /\ task' = nstarted + 1
    /\ UNCHANGED <<jobs, nextId, queue, stopper, thread, loopq,
                   dbq, outdirs, uploads, results, interrupted, lost,
                   apiVars>>

\* A consumer task that has not terminated.
Live(t) == tasks[t].pc \notin {"unborn", "cancelling", "done"}

\* stop(), up to its await: _task.cancel().  The cancelled task takes no further
\* step of its own; what it had queued on the connection is still applied.
StopCancelDroppingQueue ==
    /\ stopper = 0
    /\ task # 0
    /\ stopper' = task
    /\ tasks' = [tasks EXCEPT ![task].pc = IF Live(task) THEN "cancelling" ELSE @]
    /\ queue' = <<>>
    /\ UNCHANGED <<jobs, nextId, task, nstarted, thread, interrupted,
                   loopq, dbq, outdirs, uploads, results, lost,
                   apiVars>>
StopCancel ==
    /\ stopper = 0
    /\ task # 0
    /\ stopper' = task
    /\ tasks' = [tasks EXCEPT ![task].pc = IF Live(task) THEN "cancelling" ELSE @]
    /\ interrupted' = IF Live(task) /\ tasks[task].job # 0
                      THEN interrupted \cup {[job |-> tasks[task].job, pc |-> tasks[task].pc]}
                      ELSE interrupted
    /\ UNCHANGED <<jobs, nextId, queue, task, nstarted, thread,
                   loopq, dbq, outdirs, uploads, results, lost,
                   apiVars>>

\* CancelledError is raised at the task's await; no except clause of the worker
\* catches it (it is not an Exception), so the task ends.
TaskCancelled(t) ==
    /\ tasks[t].pc = "cancelling"
    /\ tasks' = [tasks EXCEPT ![t] = [pc |-> "done", job |-> 0]]
    /\ UNCHANGED <<jobs, nextId, queue, task, nstarted, stopper,
                   thread, loopq, dbq, outdirs, uploads, results, interrupted, lost,
                   apiVars>>

\* What stop() waits for before it goes on: the awaited task has ended.
StopNotAwaited(t) == TRUE
StopAwaited(t) == tasks[t].pc = "done"

\* stop(), after its await: _task = None.
StopReturn ==
    /\ stopper # 0
    /\ StopAwaited(stopper)
    /\ task' = 0
    /\ stopper' = 0
    /\ UNCHANGED <<jobs, nextId, queue, tasks, nstarted, thread,
                   loopq, dbq, outdirs, uploads, results, interrupted, lost,
                   apiVars>>

\* ------------------------------------------------ event loop and connection

\* call_soon_threadsafe: callbacks run in the order the threads posted them.
PostToLoopResultFirst(q, ev) == IF ev.ev = "done" THEN <<ev>> \o q ELSE Append(q, ev)
PostToLoop(q, ev) == Append(q, ev)

\* aiosqlite queues each operation on its one connection thread, which runs
\* them in submission order.
SubmitDb(q, op) == Append(q, op)

\* update_status called with no extra field.
NoFields == [f \in {} |-> Null]

StatusOp(id, t, status, kw) ==
    [op |-> "status", job |-> id, task |-> t, status |-> status, kw |-> kw]
ProgressOp(id, cur, tot) == [op |-> "progress", job |-> id, cur |-> cur, tot |-> tot]

\* ------------------------------------------- _process_loop / _process_job

\* The consumer task is back at `await self._queue.get()`.
NextJob == [pc |-> "wait", job |-> 0]

\* _process_loop's `except Exception`: logged, then the loop goes on.
AfterJobExceptionEndsTask == [pc |-> "crashed", job |-> 0]
AfterJobException == NextJob

\* shutil.rmtree(output_dir, ignore_errors=True): the directory of the job, or
\* what it holds, leaves the set.
rmtreeSkipped(dirs, id) == dirs
rmtree(dirs, id) == dirs \ {id}

\* `if job is None`: get_job found no row for the dequeued id.
JobNeverVanished(db, id) == FALSE
JobVanished(db, id) == get_job(db, id) = <<>>

\* The kwargs of the two terminal writes of _process_job.
CompletedFieldsKeepingPage(pages, comps) ==
    [result_path |-> "result.json", total_pages |-> pages, total_components |-> comps]
CompletedFields(pages, comps) ==
    [result_path |-> "result.json", current_page |-> pages,
     total_pages |-> pages, total_components |-> comps]
FailedFields(msg) == [error |-> msg]

\* queue.get() returns the oldest id and _process_job reads its row with get_job
\* (ok = FALSE: the read raises).  A missing row is skipped with a warning;
\* otherwise update_status(job_id, "processing") is issued.
Dequeue(t, ok) ==
    /\ tasks[t].pc = "wait"
    /\ queue # <<>>
    /\ queue' = Tail(queue)
    /\ LET id == Head(queue)
       IN  IF ~ok
           THEN /\ tasks' = [tasks EXCEPT ![t] = AfterJobException]
                /\ dbq' = dbq
           ELSE IF JobVanished(jobs, id)
           THEN /\ tasks' = [tasks EXCEPT ![t] = NextJob]
                /\ dbq' = dbq
           ELSE /\ tasks' = [tasks EXCEPT ![t] = [pc |-> "mark", job |-> id]]
                /\ dbq' = SubmitDb(dbq, StatusOp(id, t, "processing", NoFields))
    /\ UNCHANGED <<jobs, nextId, task, nstarted, stopper, thread, loopq, outdirs, uploads, results,
                   interrupted, lost,
                   apiVars>>

\* The connection thread runs the UPDATE of update_status(job_id, "processing");
\* the consumer then makes the output directory and awaits to_thread(run_pipeline).
DbMarkProcessing(ok, pages) ==
    /\ dbq # <<>>
    /\ Head(dbq).op = "status"
    /\ Head(dbq).status = "processing"
    /\ LET o == Head(dbq)
           t == o.task
           awaited == tasks[t].pc = "mark"
       IN  /\ jobs' = IF ok THEN update_status(jobs, o.job, o.status, o.kw) ELSE jobs
           /\ tasks' = IF ~awaited THEN tasks
                       ELSE IF ~ok THEN [tasks EXCEPT ![t] = AfterJobException]
                       ELSE [tasks EXCEPT ![t].pc = "pipeline"]
           /\ outdirs' = IF awaited /\ ok THEN outdirs \cup {o.job} ELSE outdirs
           /\ thread' = IF awaited /\ ok
                        THEN [thread EXCEPT ![o.job] =
                                [st |-> "running", rep |-> 0, tot |-> pages]]
                        ELSE thread
    /\ dbq' = Tail(dbq)
    /\ UNCHANGED <<nextId, queue, task, nstarted, stopper, loopq,
                   uploads, results, interrupted, lost, apiVars>>

\* ------------------------------------------- run_pipeline in its thread

\* The pipeline finishes a page and calls progress_callback(current, total):
\* run_coroutine_threadsafe(update_progress(...), loop).
ThreadProgress(id) ==
    /\ thread[id].st = "running"
    /\ thread[id].rep < thread[id].tot
    /\ thread' = [thread EXCEPT ![id].rep = @ + 1]
    /\ loopq' = PostToLoop(loopq, [ev |-> "progress", job |-> id,
                                   cur |-> thread[id].rep + 1, tot |-> thread[id].tot])
    /\ UNCHANGED <<jobs, nextId, queue, task, tasks, nstarted,
                   stopper, dbq, outdirs, uploads, results, interrupted, lost,
                   apiVars>>

\* run_pipeline has written the result JSON and returns its result; the
\* executor future completes on the loop.
ThreadReturn(id, comps) ==
    /\ thread[id].st = "running"
    /\ thread[id].rep = thread[id].tot
    /\ thread' = [thread EXCEPT ![id].st = "finished"]
    /\ results' = results \cup {id}
    /\ loopq' = PostToLoop(loopq, [ev |-> "done", job |-> id, ok |-> TRUE,
                                   pages |-> thread[id].tot, comps |-> comps])
    /\ UNCHANGED <<jobs, nextId, queue, task, tasks, nstarted,
                   stopper, dbq, outdirs, uploads, interrupted, lost,
                   apiVars>>

\* run_pipeline raises.
ThreadRaise(id) ==
    /\ thread[id].st = "running"
    /\ thread' = [thread EXCEPT ![id].st = "finished"]
    /\ loopq' = PostToLoop(loopq, [ev |-> "done", job |-> id, ok |-> FALSE,
                                   pages |-> 0, comps |-> 0])
    /\ UNCHANGED <<jobs, nextId, queue, task, tasks, nstarted,
                   stopper, dbq, outdirs, uploads, results, interrupted, lost,
                   apiVars>>

\* The loop runs a posted progress callback: update_progress reaches its execute.
LoopProgress ==
    /\ loopq # <<>>
    /\ Head(loopq).ev = "progress"
    /\ loopq' = Tail(loopq)
    /\ dbq' = SubmitDb(dbq, ProgressOp(Head(loopq).job, Head(loopq).cur, Head(loopq).tot))
    /\ UNCHANGED <<jobs, nextId, queue, task, tasks, nstarted,
                   stopper, thread, outdirs, uploads, results, interrupted, lost,
                   apiVars>>

\* The consumer task awaiting to_thread for this job, if it was not cancelled.
AwaitingThoughCancelled(id) ==
    {t \in TaskIds : tasks[t].pc \in {"pipeline", "cancelling"} /\ tasks[t].job = id}
Awaiting(id) == {t \in TaskIds : tasks[t].pc = "pipeline" /\ tasks[t].job = id}

\* The loop resumes the consumer with the pipeline's result: the 'completed'
\* write is issued.
LoopPipelineReturned ==
    /\ loopq # <<>>
    /\ Head(loopq).ev = "done"
    /\ Head(loopq).ok
    /\ LET e == Head(loopq)
       IN  /\ tasks' = [t \in TaskIds |->
                          IF t \in Awaiting(e.job)
                          THEN [tasks[t] EXCEPT !.pc = "completing"] ELSE tasks[t]]
           /\ dbq' = IF Awaiting(e.job) # {}
                     THEN SubmitDb(dbq, StatusOp(e.job, CHOOSE t \in Awaiting(e.job) : TRUE,
                                                 "completed",
                                                 CompletedFields(e.pages, e.comps)))
                     ELSE dbq
    /\ loopq' = Tail(loopq)
    /\ UNCHANGED <<jobs, nextId, queue, task, nstarted, stopper,
                   thread, outdirs, uploads, results, interrupted, lost,
                   apiVars>>

\* The loop resumes the consumer with the pipeline's exception: the except
\* branch removes the output directory and issues the 'failed' write.
LoopPipelineRaised ==
    /\ loopq # <<>>
    /\ Head(loopq).ev = "done"
    /\ ~Head(loopq).ok
    /\ LET e == Head(loopq)
       IN  /\ tasks' = [t \in TaskIds |->
                          IF t \in Awaiting(e.job)
                          THEN [tasks[t] EXCEPT !.pc = "failing"] ELSE tasks[t]]
           /\ outdirs' = IF Awaiting(e.job) # {} THEN rmtree(outdirs, e.job) ELSE outdirs
           /\ results' = IF Awaiting(e.job) # {} THEN rmtree(results, e.job) ELSE results
           /\ dbq' = IF Awaiting(e.job) # {}
                     THEN SubmitDb(dbq, StatusOp(e.job, CHOOSE t \in Awaiting(e.job) : TRUE,
                                                 "failed", FailedFields(PipelineError)))
                     ELSE dbq
    /\ loopq' = Tail(loopq)
    /\ UNCHANGED <<jobs, nextId, queue, task, nstarted, stopper,
                   thread, uploads, interrupted, lost, apiVars>>

\* The connection thread runs the UPDATE of update_progress.
DbProgress(ok) ==
    /\ dbq # <<>>
    /\ Head(dbq).op = "progress"
    /\ jobs' = IF ok THEN update_progress(jobs, Head(dbq).job, Head(dbq).cur, Head(dbq).tot)
               ELSE jobs
    /\ dbq' = Tail(dbq)
    /\ UNCHANGED <<nextId, queue, task, tasks, nstarted, stopper,
                   thread, loopq, outdirs, uploads, results, interrupted, lost,
                   apiVars>>

\* The connection thread runs the UPDATE of update_status(job_id, "completed", ...).
\* If it raises, the same except branch as for the pipeline handles it.
DbCompleted(ok) ==
    /\ dbq # <<>>
    /\ Head(dbq).op = "status"
    /\ Head(dbq).status = "completed"
    /\ LET o == Head(dbq)
           t == o.task
           awaited == tasks[t].pc = "completing"
       IN  /\ jobs' = IF ok THEN update_status(jobs, o.job, o.status, o.kw) ELSE jobs
           /\ tasks' = IF ~awaited THEN tasks
                       ELSE IF ok THEN [tasks EXCEPT ![t] = NextJob]
                       ELSE [tasks EXCEPT ![t].pc = "failing"]
           /\ outdirs' = IF awaited /\ ~ok THEN rmtree(outdirs, o.job) ELSE outdirs
           /\ results' = IF awaited /\ ~ok THEN rmtree(results, o.job) ELSE results
           /\ dbq' = IF awaited /\ ~ok
                     THEN SubmitDb(Tail(dbq),
                                   StatusOp(o.job, t, "failed", FailedFields(StoreError)))
                     ELSE Tail(dbq)
    /\ UNCHANGED <<nextId, queue, task, nstarted, stopper, thread,
                   loopq, uploads, interrupted, lost, apiVars>>

\* The connection thread runs the UPDATE of update_status(job_id, "failed", error=...).
\* If it raises, the exception leaves _process_job and _process_loop logs it.
DbFailed(ok) ==
    /\ dbq # <<>>
    /\ Head(dbq).op = "status"
    /\ Head(dbq).status = "failed"
    /\ LET o == Head(dbq)
           t == o.task
           awaited == tasks[t].pc = "failing"
       IN  /\ jobs' = IF ok THEN update_status(jobs, o.job, o.status, o.kw) ELSE jobs
           /\ tasks' = IF ~awaited THEN tasks
                       ELSE IF ok THEN [tasks EXCEPT ![t] = NextJob]
                       ELSE [tasks EXCEPT ![t] = AfterJobException]
           /\ lost' = IF ok THEN lost ELSE lost \cup {o.job}
    /\ dbq' = Tail(dbq)
    /\ UNCHANGED <<nextId, queue, task, nstarted, stopper, thread,
                   loopq, outdirs, uploads, results, interrupted,
                   apiVars>>

\* ------------------------------------------ remote store (user_jobs.py)

\* storage.py: the job's components are uploaded under the user's prefix and a
\* row is inserted in the Supabase jobs table (the id is its primary key).
save_job_to_supabase(tbl, user, id, title) ==
    (id :> [user_id |-> user, title |-> title]) @@ tbl

\* The component images of a job, stored as "{user_id}/{job_id}/{comp_id}.png".
put_objects(user, id) == {<<user, id, c>> : c \in 1..MaxComps}

\* The save is no request of these routes: it leaves no answer behind.
SaveJob(user, id) ==
    /\ supabase # Null
    /\ id \notin DOMAIN remote
    /\ remote' = save_job_to_supabase(remote, user, id, UploadName)
    /\ objects' = objects \cup put_objects(user, id)
    /\ resp' = NoResponse
    /\ calls' = <<>>
    /\ UNCHANGED <<jobs, outdirs, uploads, results, supabase, idVars, extVars, upVars, workerVars>>

\* The completion of an accepted authenticated upload saves one remote row for
\* the job's owner, titled with the original filename (when the job completes
\* is not looked at here).
SaveCompleted(id) ==
    /\ supabase # Null
    /\ id \in DOMAIN jobs
    /\ jobs[id].user_id # NoUser
    /\ id \notin DOMAIN remote
    /\ remote' = save_job_to_supabase(remote, jobs[id].user_id, id, jobs[id].filename)
    /\ objects' = objects \cup put_objects(jobs[id].user_id, id)
    /\ resp' = NoResponse
    /\ calls' = <<>>
    /\ UNCHANGED <<jobs, outdirs, uploads, results, supabase, idVars, extVars, upVars, workerVars>>

\* select ... eq("id", job_uuid).eq("user_id", user_id).limit(1): whether a row
\* of that id owned by that user exists.
get_user_job_of_any_owner(tbl, user, id) == id \in DOMAIN tbl
get_user_job(tbl, user, id) == id \in DOMAIN tbl /\ tbl[id].user_id = user

\* update({"title": title}).eq("id", job_uuid).eq("user_id", user_id)
rename_user_job(tbl, user, id, title) ==
    IF get_user_job(tbl, user, id) THEN [tbl EXCEPT ![id].title = title] ELSE tbl

\* delete_user_job, first stage: the objects under "{user_id}/{job_id}" are
\* listed and removed.
list_objects(objs, user, id) == {o \in objs : o[1] = user /\ o[2] = id}
remove_objects(objs, user, id) == objs \ list_objects(objs, user, id)
\* delete_user_job, second stage: delete().eq("id", job_uuid).eq("user_id", user_id)
delete_user_row(tbl, user, id) ==
    IF get_user_job(tbl, user, id) THEN [j \in DOMAIN tbl \ {id} |-> tbl[j]] ELSE tbl

\* ---------------------------------------- rename / delete (routes.py)

\* A character is one of Chars or the name of one that cannot be written
\* here: "BACKSLASH", the control characters "LF" (whitespace to str.strip) and
\* "NUL" (not whitespace).
Whitespace == {" ", "LF"}
ControlChars == {"LF", "NUL"}

\* str.strip()
RECURSIVE lstrip(_)
lstrip(s) == IF s # <<>> /\ Head(s) \in Whitespace THEN lstrip(Tail(s)) ELSE s
Reverse(s) == [i \in 1..Len(s) |-> s[Len(s) + 1 - i]]
strip(s) == Reverse(lstrip(Reverse(lstrip(s))))

\* _validate_base_name accepts the stripped name: not empty, at most
\* MAX_BASE_NAME_LENGTH characters, none matching INVALID_BASE_NAME_PATTERN
\* (slash, backslash, \x00-\x1f, \x7f).
NotEmpty(cleaned) == cleaned # <<>>
ValidBaseName(cleaned) ==
    /\ cleaned # <<>>
    /\ Len(cleaned) <= MAX_BASE_NAME_LENGTH
    /\ \A i \in 1..Len(cleaned) : cleaned[i] \notin {"/", "BACKSLASH"} \cup ControlChars

\* The base names a rename request can carry.
BaseNames == UNION {[1..n -> Chars] : n \in 0..MaxNameLen}

\* `if requester_id is None: raise HTTPException(401)`
AuthNeverRequired(requester) == FALSE
AuthRequired(requester) == requester = NoUser

\* `local_job is not None and local_job.get("user_id") is None`: the delete
\* route refuses a job whose local row belongs to a guest.
GuestJobNeverBlocked(db, id) == FALSE
GuestJobBlocked(db, id) == id \in DOMAIN db /\ db[id].user_id = NoUser

\* The try / except around the remote write: the handler goes on to the local
\* store only when the remote call returned.
ProceedThoughRemoteRaised(returned) == TRUE
ProceedAfterRemote(returned) == returned

\* What a local call that raises does to the request: nothing catches it, and
\* the framework answers 500.
LocalFailureStatus(success) == 500

\* The faults a request can meet: which remote stage raises, which local call
\* raises.
RemoteFaults == {"none", "storage", "row"}
DeleteLocalFaults == {"none", "cleanup_job_files", "delete_job"}
RenameLocalFaults == {"none", "get_job", "rename_job"}

\* ExtractionWorker.cleanup_job_files(upload_path, result_path): the upload file
\* is unlinked (with its then empty directory); the result JSON, when the row
\* names one and it exists, is unlinked, and its directory too if that left it
\* empty.
cleanup_uploads(ups, id) == ups \ {id}
cleanup_results(res, row, id) == IF row.result_path # Null THEN res \ {id} ELSE res
cleanup_outdirs(dirs, res, row, id, dirEmpty) ==
    IF row.result_path # Null /\ id \in res /\ dirEmpty THEN dirs \ {id} ELSE dirs

\* DELETE /jobs/{job_id}.  remoteFault, localFault: the stage of the remote
\* delete and the local call that raise; dirEmpty: whether the output
\* directory holds nothing but the result JSON.
DeleteRoute(requester, id) ==
    LET hasLocal == id \in DOMAIN jobs
        c1 == <<Call("get_job", TRUE)>>
        c2 == Append(c1, Call("get_user_job", TRUE))
    IN  /\ UNCHANGED <<supabase, idVars, extVars, upVars, workerVars>>
        /\ IF AuthRequired(requester)
           THEN /\ Reply("delete", requester, id, 401, <<>>)
                /\ UNCHANGED <<jobs, outdirs, uploads, results, remote, objects>>
           ELSE IF id = BadId
           THEN /\ Reply("delete", requester, id, 422, <<>>)
                /\ UNCHANGED <<jobs, outdirs, uploads, results, remote, objects>>
           ELSE IF GuestJobBlocked(jobs, id)
           THEN /\ Reply("delete", requester, id, 403, c1)
                /\ UNCHANGED <<jobs, outdirs, uploads, results, remote, objects>>
           ELSE IF supabase = Null
           THEN /\ Reply("delete", requester, id, 502, c1)
                /\ UNCHANGED <<jobs, outdirs, uploads, results, remote, objects>>
           ELSE IF ~get_user_job(remote, requester, id)
           THEN /\ Reply("delete", requester, id, 404, c2)
                /\ UNCHANGED <<jobs, outdirs, uploads, results, remote, objects>>
           ELSE \E remoteFault \in RemoteFaults :
                LET c3 == Append(c2, Call("delete_user_job", remoteFault = "none"))
                IN  /\ objects' = IF remoteFault = "storage" THEN objects
                                  ELSE remove_objects(objects, requester, id)
                    /\ remote' = IF remoteFault = "none"
                                 THEN delete_user_row(remote, requester, id) ELSE remote
                    /\ IF ~ProceedAfterRemote(remoteFault = "none")
                       THEN /\ Reply("delete", requester, id, 502, c3)
                            /\ UNCHANGED <<jobs, outdirs, uploads, results>>
                       ELSE IF ~hasLocal
                       THEN /\ Reply("delete", requester, id, 204, c3)
                            /\ UNCHANGED <<jobs, outdirs, uploads, results>>
                       ELSE \E localFault \in DeleteLocalFaults, dirEmpty \in BOOLEAN :
                            LET c4 == Append(c3, Call("cleanup_job_files",
                                                      localFault # "cleanup_job_files"))
                                c5 == Append(c4, Call("delete_job", localFault # "delete_job"))
                            IN  IF localFault = "cleanup_job_files"
                                THEN /\ Reply("delete", requester, id, LocalFailureStatus(204), c4)
                                     /\ UNCHANGED <<jobs, outdirs, uploads, results>>
                                ELSE /\ uploads' = cleanup_uploads(uploads, id)
                                     /\ results' = cleanup_results(results, jobs[id], id)
                                     /\ outdirs' = cleanup_outdirs(outdirs, results, jobs[id],
                                                                   id, dirEmpty)
                                     /\ IF localFault = "delete_job"
                                        THEN /\ Reply("delete", requester, id, LocalFailureStatus(204), c5)
                                             /\ jobs' = jobs
                                        ELSE /\ Reply("delete", requester, id, 204, c5)
                                             /\ jobs' = delete_job(jobs, id)

\* PATCH /jobs/{job_id}/rename.  remoteReturns: whether rename_user_job returns;
\* localFault: the local call that raises.
RenameRoute(requester, id, base_name) ==
    LET cleaned == strip(base_name)
        new_title == [base |-> cleaned, ext |-> remote[id].title.ext]
        c1 == <<Call("get_user_job", TRUE)>>
    IN  /\ UNCHANGED <<supabase, idVars, extVars, upVars, workerVars, outdirs, uploads, results,
                       objects>>
        /\ IF AuthRequired(requester)
           THEN /\ Reply("rename", requester, id, 401, <<>>)
                /\ UNCHANGED <<jobs, remote>>
           ELSE IF id = BadId
           THEN /\ Reply("rename", requester, id, 422, <<>>)
                /\ UNCHANGED <<jobs, remote>>
           ELSE IF supabase = Null
           THEN /\ Reply("rename", requester, id, 502, <<>>)
                /\ UNCHANGED <<jobs, remote>>
           ELSE IF ~get_user_job(remote, requester, id)
           THEN /\ Reply("rename", requester, id, 404, c1)
                /\ UNCHANGED <<jobs, remote>>
           ELSE IF ~ValidBaseName(cleaned)
           THEN /\ Reply("rename", requester, id, 422, c1)
                /\ UNCHANGED <<jobs, remote>>
           ELSE IF remote[id].title = new_title
           THEN /\ Reply("rename", requester, id, 200, c1)
                /\ UNCHANGED <<jobs, remote>>
           ELSE \E remoteReturns \in BOOLEAN :
                LET c2 == Append(c1, Call("rename_user_job", remoteReturns))
                IN  /\ remote' = IF remoteReturns
                                 THEN rename_user_job(remote, requester, id, new_title)
                                 ELSE remote
                    /\ IF ~ProceedAfterRemote(remoteReturns)
                       THEN /\ Reply("rename", requester, id, 502, c2)
                            /\ jobs' = jobs
                       ELSE \E localFault \in RenameLocalFaults :
                            LET c3 == Append(c2, Call("get_job", localFault # "get_job"))
                                c4 == Append(c3, Call("rename_job", localFault # "rename_job"))
                            IN  IF localFault = "get_job"
                                THEN /\ Reply("rename", requester, id, LocalFailureStatus(200), c3)
                                     /\ jobs' = jobs
                                ELSE IF ~(id \in DOMAIN jobs /\ jobs[id].user_id = requester)
                                THEN /\ Reply("rename", requester, id, 200, c3)
                                     /\ jobs' = jobs
                                ELSE IF localFault = "rename_job"
                                THEN /\ Reply("rename", requester, id, LocalFailureStatus(200), c4)
                                     /\ jobs' = jobs
                                ELSE /\ Reply("rename", requester, id, 200, c4)
                                     /\ jobs' = rename_job(jobs, id, new_title)

\* ---------------------------------------------------------------- Spec

\* Every step of the worker, the store and the pipeline threads; Outcomes are
\* the results a store call can have (TRUE: it returns, FALSE: it raises),
\* Uploaders the identities extract requests come with.
NextWith(Outcomes, Uploaders) ==
    \/ \E u \in Uploaders : Extract(u)
    \/ \E id \in Jobs : DeleteJob(id)
    \/ Start
    \/ StopCancel
    \/ \E t \in TaskIds : TaskCancelled(t)
    \/ StopReturn
    \/ \E t \in TaskIds, ok \in Outcomes : Dequeue(t, ok)
    \/ \E ok \in Outcomes, n \in 1..MaxPages : DbMarkProcessing(ok, n)
    \/ \E id \in Jobs : ThreadProgress(id)
    \/ \E id \in Jobs, c \in 1..MaxComps : ThreadReturn(id, c)
    \/ \E id \in Jobs : ThreadRaise(id)
    \/ LoopProgress
    \/ LoopPipelineReturned
    \/ LoopPipelineRaised
    \/ \E ok \in Outcomes : DbProgress(ok)
    \/ \E ok \in Outcomes : DbCompleted(ok)
    \/ \E ok \in Outcomes : DbFailed(ok)

\* The worker over a store whose calls always return.
Next == NextWith({TRUE}, WorkerUploaders)
Spec == Init /\ [][Next]_vars

\* The worker over a store whose calls may raise.
NextFaults == NextWith(BOOLEAN, WorkerUploaders)
SpecFaults == Init /\ [][NextFaults]_vars

\* The scheduling the event loop, the connection thread and the executor give:
\* a runnable task step, a queued callback, a queued store operation and a
\* pipeline thread that has processed its pages are each eventually run.
\* start(), stop(), extract and delete requests are under no obligation.
Fairness ==
    /\ \A t \in TaskIds : WF_vars(\E ok \in BOOLEAN : Dequeue(t, ok))
    /\ \A t \in TaskIds : WF_vars(TaskCancelled(t))
    /\ WF_vars(StopReturn)
    /\ WF_vars(\E ok \in BOOLEAN, n \in 1..MaxPages : DbMarkProcessing(ok, n))
    /\ \A id \in Jobs : WF_vars(ThreadProgress(id))
    /\ \A id \in Jobs : WF_vars(\E c \in 1..MaxComps : ThreadReturn(id, c))
    /\ WF_vars(LoopProgress)
    /\ WF_vars(LoopPipelineReturned)
    /\ WF_vars(LoopPipelineRaised)
    /\ WF_vars(\E ok \in BOOLEAN : DbProgress(ok))
    /\ WF_vars(\E ok \in BOOLEAN : DbCompleted(ok))
    /\ WF_vars(\E ok \in BOOLEAN : DbFailed(ok))

\* The worker never reads user_id, so the liveness specification takes its
\* uploads from guests only.
NextLive == NextWith(BOOLEAN, {NoUser})
SpecLive == Init /\ [][NextLive]_vars /\ Fairness

\* The routes over the local and the remote store, whose calls may raise; the
\* consumer takes no step meanwhile.
InitApi == \E client \in {"client", Null} : InitWith(client)
NextApi ==
    \/ \E u \in Owners : Extract(u)
    \/ \E u \in Users, id \in Jobs : SaveJob(u, id)
    \/ \E u \in Owners, id \in {BadId} \cup Jobs : DeleteRoute(u, id)
    \/ \E u \in Owners, id \in {BadId} \cup Jobs, b \in BaseNames : RenameRoute(u, id, b)
SpecApi == InitApi /\ [][NextApi]_vars

\* The slot quota: the process starts over a remote store that already holds
\* up to MAX_USER_SLOTS saved jobs of user "u1" (rows of earlier runs, whose
\* local rows are gone); uploads, completions and deletes follow.
OldJobs == {100 + i : i \in 1..MAX_USER_SLOTS}
SavedBefore(k) ==
    [j \in {100 + i : i \in 1..k} |-> [user_id |-> "u1", title |-> UploadName]]
InitQuota ==
    \E k \in 0..MAX_USER_SLOTS :
        /\ jobs = EmptyTable
        /\ nextId = 1
        /\ queue = <<>>
        /\ callers = NoCalls
        /\ disk = EmptyTable
        /\ journal = <<>>
        /\ task = 0
        /\ tasks = [t \in TaskIds |-> IdleTask]
        /\ nstarted = 0
        /\ stopper = 0
        /\ thread = [j \in Jobs |-> IdleThread]
        /\ loopq = <<>>
        /\ dbq = <<>>
        /\ outdirs = {}
        /\ uploads = {}
        /\ results = {}
        /\ supabase = "client"
        /\ remote = SavedBefore(k)
        /\ objects = UNION {put_objects("u1", j) : j \in DOMAIN SavedBefore(k)}
        /\ resp = NoResponse
        /\ calls = <<>>
        /\ interrupted = {}
        /\ lost = {}
        /\ sem = 0
        /\ uptasks = NoUploads
        /\ meta = <<>>
        /\ batch = NoBatch
        /\ now = StartTime
        /\ columns = JobColumns
        /\ conn = "open"
        /\ rdel = NoDelete
        /\ result_data = <<>>
        /\ page = NoPage
        /\ fetched = NoFetch
    /\ request = <<>>
    /\ feedback = <<>>
    /\ fs = NoFiles
    /\ body = <<>>
NextQuota ==
    \/ \E u \in {NoUser, "u1"} : Extract(u)
    \/ \E id \in Jobs : SaveCompleted(id)
    \/ \E id \in Jobs \cup OldJobs : DeleteRoute("u1", id)
SpecQuota == InitQuota /\ [][NextQuota]_vars

\* ------------------------------- upload_components_to_supabase (storage.py)

_UPLOAD_CONCURRENCY == 8
_UPLOAD_MAX_RETRIES == 3

\* The components of the result, in page order; Blank are those whose base64
\* is empty.
Components(n) == 1..n
BlankSets == {{}, {1}}

\* The loop over pages and components: a component without base64 is skipped
\* (`continue`), every other one gets one meta entry and one task.
RECURSIVE Collect(_, _, _)
Collect(c, n, blank) ==
    IF c > n THEN <<>>
    ELSE (IF c \in blank THEN <<>> ELSE <<c>>) \o Collect(c + 1, n, blank)

Scheduled(m) == {m[i] : i \in DOMAIN m}

\* asyncio.Semaphore.locked(): no permit left.
SemNeverLocked(permits) == FALSE
SemLocked(permits) == permits <= 0

\* `if attempt == _UPLOAD_MAX_RETRIES - 1: raise`
LastAttemptOffByOne(attempt) == attempt = _UPLOAD_MAX_RETRIES
LastAttempt(attempt) == attempt = _UPLOAD_MAX_RETRIES - 1

\* asyncio.gather(*tasks) returns once every task has returned.
FirstCompleted(ts) == \E c \in DOMAIN ts : ts[c].st = "done"
AllSucceeded(ts) == \A c \in DOMAIN ts : ts[c].st = "done"

\* The exception the last attempt of component c's upload raised.
UploadError(c, attempt) == [comp |-> c, attempt |-> attempt]

\* The call up to `await asyncio.gather(*tasks)`: the semaphore, one meta entry
\* and one task per component with base64; no task has run yet.
StartBatch(n, blank) ==
    /\ batch.st = "idle"
    /\ sem' = _UPLOAD_CONCURRENCY
    /\ meta' = Collect(1, n, blank)
    /\ uptasks' = [c \in Scheduled(meta') |-> WaitingUpload]
    /\ batch' = [batch EXCEPT !.st = "gathering"]
    /\ UNCHANGED <<jobs, outdirs, uploads, results, supabase, idVars, extVars, remote, objects,
                   resp, calls, workerVars>>

\* `async with sem:` entered, in the order the tasks were created, and the
\* first upload handed to the executor.
Acquire(c) ==
    /\ c \in DOMAIN uptasks
    /\ uptasks[c].st = "waiting"
    /\ \A d \in DOMAIN uptasks : d < c => uptasks[d].st # "waiting"
    /\ ~SemLocked(sem)
    /\ sem' = sem - 1
    /\ uptasks' = [uptasks EXCEPT ![c].st = "uploading", ![c].calls = @ + 1]
    /\ UNCHANGED <<meta, batch>>
    /\ UNCHANGED <<jobs, outdirs, uploads, results, supabase, idVars, extVars, remote, objects,
                   resp, calls, workerVars>>

\* The storage upload returned: `return`, leaving `async with sem`.
UploadOk(c) ==
    /\ c \in DOMAIN uptasks
    /\ uptasks[c].st = "uploading"
    /\ uptasks' = [uptasks EXCEPT ![c].st = "done", ![c].stored = @ + 1]
    /\ sem' = sem + 1
    /\ UNCHANGED <<meta, batch>>
    /\ UNCHANGED <<jobs, outdirs, uploads, results, supabase, idVars, extVars, remote, objects,
                   resp, calls, workerVars>>

\* The storage upload raised: the last attempt re-raises and leaves the
\* semaphore (gather keeps the first exception of its tasks), an earlier one
\* sleeps the backoff inside `async with sem`.
UploadFail(c) ==
    /\ c \in DOMAIN uptasks
    /\ uptasks[c].st = "uploading"
    /\ batch.failed < MaxFailures
    /\ IF LastAttempt(uptasks[c].attempt)
       THEN /\ uptasks' = [uptasks EXCEPT ![c].st = "raised"]
            /\ sem' = sem + 1
            /\ batch' = [batch EXCEPT
                           !.failed = @ + 1,
                           !.err = IF @ = <<>>
                                   THEN <<UploadError(c, uptasks[c].attempt)>> ELSE @]
       ELSE /\ uptasks' = [uptasks EXCEPT ![c].st = "sleeping"]
            /\ batch' = [batch EXCEPT !.failed = @ + 1]
            /\ sem' = sem
    /\ UNCHANGED meta
    /\ UNCHANGED <<jobs, outdirs, uploads, results, supabase, idVars, extVars, remote, objects,
                   resp, calls, workerVars>>

\* `await asyncio.sleep(wait)` is over: the next attempt of the loop.
Retry(c) ==
    /\ c \in DOMAIN uptasks
    /\ uptasks[c].st = "sleeping"
    /\ uptasks' = [uptasks EXCEPT ![c].st = "uploading", ![c].attempt = @ + 1,
                                  ![c].calls = @ + 1]
    /\ UNCHANGED <<sem, meta, batch>>
    /\ UNCHANGED <<jobs, outdirs, uploads, results, supabase, idVars, extVars, remote, objects,
                   resp, calls, workerVars>>

\* gather returned: the call logs and returns meta.
GatherReturned ==
    /\ batch.st = "gathering"
    /\ AllSucceeded(uptasks)
    /\ batch' = [batch EXCEPT !.st = "returned"]
    /\ UNCHANGED <<sem, uptasks, meta>>
    /\ UNCHANGED <<jobs, outdirs, uploads, results, supabase, idVars, extVars, remote, objects,
                   resp, calls, workerVars>>

\* gather raised the first exception of its tasks: the call raises it; the
\* other tasks are not cancelled.
GatherRaised ==
    /\ batch.st = "gathering"
    /\ batch.err # <<>>
    /\ batch' = [batch EXCEPT !.st = "raised"]
    /\ UNCHANGED <<sem, uptasks, meta>>
    /\ UNCHANGED <<jobs, outdirs, uploads, results, supabase, idVars, extVars, remote, objects,
                   resp, calls, workerVars>>

NextUpload ==
    \/ \E n \in 0..MaxComponents, blank \in BlankSets : StartBatch(n, blank)
    \/ \E c \in Components(MaxComponents) : Acquire(c)
    \/ \E c \in Components(MaxComponents) : UploadOk(c)
    \/ \E c \in Components(MaxComponents) : UploadFail(c)
    \/ \E c \in Components(MaxComponents) : Retry(c)
    \/ GatherReturned
    \/ GatherRaised
SpecUpload == Init /\ [][NextUpload]_vars

\* ------------------------------------------------ the JobStore on its own

\* The arguments callers hand to the store.
FileNames == {UploadName, [base |-> <<"a">>, ext |-> ".pdf"]}
StoreCallers == {NoUser, "u1"}
StatusArgs == {"processing", "failed", "delivered", "done"}
FieldArgs == {NoFields, FailedFields(StoreError)}

\* await job_store.create_job(filename, upload_path, user_id)
CreateJob(filename, upload_path, user) ==
    /\ nextId <= MaxJobs
    /\ jobs' = create_job(jobs, nextId, filename, upload_path, user)
    /\ nextId' = nextId + 1
    /\ resp' = [route |-> "create_job", user |-> user, job |-> nextId, status |-> 0]
    /\ calls' = <<[op |-> "create_job", ok |-> TRUE, filename |-> filename,
                   upload_path |-> upload_path, user_id |-> user]>>
    /\ UNCHANGED <<queue, task, tasks, nstarted, stopper, thread, loopq, dbq,
                   outdirs, uploads, results, interrupted, lost,
                   supabase, idVars, extVars, upVars, remote, objects>>

\* await job_store.update_status(job_id, status, **kwargs)
UpdateStatus(id, status, kw) ==
    /\ resp' = [route |-> "update_status", user |-> NoUser, job |-> id, status |-> 0]
    /\ IF StatusRejected(status)
       THEN /\ jobs' = jobs
            /\ calls' = <<[op |-> "update_status", ok |-> FALSE, status |-> status]>>
       ELSE /\ jobs' = update_status(jobs, id, status, kw)
            /\ calls' = <<[op |-> "update_status", ok |-> TRUE, status |-> status,
                           kw |-> kw],
                          Call("execute", TRUE), Call("commit", TRUE)>>
    /\ UNCHANGED <<nextId, queue, task, tasks, nstarted, stopper, thread, loopq, dbq,
                   outdirs, uploads, results, interrupted, lost,
                   supabase, idVars, extVars, upVars, remote, objects>>

\* await job_store.update_progress(job_id, current_page, total_pages)
UpdateProgress(id, cur, tot) ==
    /\ jobs' = update_progress(jobs, id, cur, tot)
    /\ resp' = [route |-> "update_progress", user |-> NoUser, job |-> id, status |-> 0]
    /\ calls' = <<[op |-> "update_progress", ok |-> TRUE, cur |-> cur, tot |-> tot]>>
    /\ UNCHANGED <<nextId, queue, task, tasks, nstarted, stopper, thread, loopq, dbq,
                   outdirs, uploads, results, interrupted, lost,
                   supabase, idVars, extVars, upVars, remote, objects>>

\* await job_store.delete_job(job_id): True when a row was deleted.
DeleteStored(id) ==
    /\ jobs' = delete_job(jobs, id)
    /\ resp' = [route |-> "delete_job", user |-> NoUser, job |-> id, status |-> 0]
    /\ calls' = <<Call("delete_job", id \in DOMAIN jobs)>>
    /\ UNCHANGED <<nextId, queue, task, tasks, nstarted, stopper, thread, loopq, dbq,
                   outdirs, uploads, results, interrupted, lost,
                   supabase, idVars, extVars, upVars, remote, objects>>

NextStore ==
    \/ \E f \in FileNames, d \in {0, nextId}, u \in StoreCallers :
          CreateJob(f, UploadPath(d, f), u)
    \/ \E id \in Jobs : DeleteStored(id)
    \/ \E id \in Jobs, st \in StatusArgs, kw \in FieldArgs : UpdateStatus(id, st, kw)
    \/ \E id \in Jobs, cur \in 0..MaxPages : UpdateProgress(id, cur, MaxPages)
SpecStore == Init /\ [][NextStore]_vars

\* ------------------------------------- store calls from concurrent tasks

MaxCalls == 3

\* The writes of _process_job and _on_progress, and those of the request
\* handlers.
WorkerCalls ==
    [op : {"update_status"}, id : Jobs, status : {"processing"}, kw : {NoFields}]
        \cup [op : {"update_status"}, id : Jobs, status : {"failed"},
              kw : {FailedFields(StoreError)}]
        \cup [op : {"update_progress"}, id : Jobs, cur : 0..MaxPages, tot : {MaxPages}]
HandlerCalls ==
    [op : {"create_job"}, filename : {UploadName}, user : StoreCallers]
        \cup [op : {"rename_job"}, id : Jobs, filename : FileNames]
        \cup [op : {"delete_job"}, id : Jobs]
CallsOf(t) == IF t = "worker" THEN WorkerCalls ELSE HandlerCalls

\* The SQL statement of a store call, on a table.
Statement(db, call, id) ==
    CASE call.op = "create_job" ->
            create_job(db, id, call.filename, UploadPath(id, call.filename), call.user)
      [] call.op = "update_status" -> update_status(db, id, call.status, call.kw)
      [] call.op = "update_progress" -> update_progress(db, id, call.cur, call.tot)
      [] call.op = "rename_job" -> rename_job(db, id, call.filename)
      [] call.op = "delete_job" -> delete_job(db, id)

\* Every call runs its statement on self._db, the one connection init()
\* opened: the statement sees the connection's uncommitted statements.
LastCommitted(working) == disk
ConnectionTable(working) == working

\* A task enters a store call: the call awaits self._db.execute(...).
BeginCall(t, call) ==
    /\ callers[t].pc \in {"idle", "returned"}
    /\ Len(journal) + Cardinality({u \in CallerTasks : callers[u].pc = "execute"}) < MaxCalls
    /\ call.op = "create_job" => nextId <= MaxJobs
    /\ callers' = [callers EXCEPT ![t] = [pc |-> "execute", call |-> call]]
    /\ UNCHANGED <<jobs, nextId, disk, journal, resp, calls,
                   queue, task, tasks, nstarted, stopper, thread, loopq, dbq,
                   outdirs, uploads, results, interrupted, lost,
                   supabase, request, feedback, fs, body, extVars, upVars, remote, objects>>

\* The connection runs the statement; the call goes on to await
\* self._db.commit().
Execute(t) ==
    /\ callers[t].pc = "execute"
    /\ LET call == callers[t].call
           id == IF call.op = "create_job" THEN nextId ELSE call.id
       IN  /\ jobs' = Statement(ConnectionTable(jobs), call, id)
           /\ nextId' = IF call.op = "create_job" THEN nextId + 1 ELSE nextId
           /\ journal' = Append(journal, [task |-> t, call |-> call, id |-> id])
           /\ callers' = [callers EXCEPT ![t] = [pc |-> "commit", call |-> call]]
    /\ UNCHANGED <<disk, resp, calls,
                   queue, task, tasks, nstarted, stopper, thread, loopq, dbq,
                   outdirs, uploads, results, interrupted, lost,
                   supabase, request, feedback, fs, body, extVars, upVars, remote, objects>>

\* The connection commits, whatever it has executed so far, and the call
\* returns.
Commit(t) ==
    /\ callers[t].pc = "commit"
    /\ disk' = jobs
    /\ callers' = [callers EXCEPT ![t] = [pc |-> "returned", call |-> callers[t].call]]
    /\ UNCHANGED <<jobs, nextId, journal, resp, calls,
                   queue, task, tasks, nstarted, stopper, thread, loopq, dbq,
                   outdirs, uploads, results, interrupted, lost,
                   supabase, request, feedback, fs, body, extVars, upVars, remote, objects>>

NextConn ==
    \/ \E t \in CallerTasks : \E call \in CallsOf(t) : BeginCall(t, call)
    \/ \E t \in CallerTasks : Execute(t)
    \/ \E t \in CallerTasks : Commit(t)
SpecConn == Init /\ [][NextConn]_vars

\* ------------------------------------------------- the retention sweep

\* Time passes: to a later microsecond of the hour, or into the next hour.
Tick ==
    /\ \/ now.us = 0 /\ now' = [now EXCEPT !.us = 1]
       \/ /\ now.h < MaxAge + MaxHours
          /\ \E us \in {0, 1} : now' = [h |-> now.h + 1, us |-> us]
    /\ UNCHANGED <<jobs, outdirs, uploads, results, supabase, idVars, schemaVars, rdel, pageVars,
                   upVars, remote, objects, resp, calls, workerVars>>

\* await job_store.get_old_job_paths(max_age_hours)
ListExpired(max_age_hours) ==
    /\ resp' = [route |-> "get_old_job_paths", user |-> NoUser, job |-> NoJob, status |-> 0]
    /\ calls' = <<[op |-> "get_old_job_paths", ok |-> TRUE, max_age_hours |-> max_age_hours,
                   rows |-> get_old_job_paths(jobs, max_age_hours)]>>
    /\ UNCHANGED <<jobs, outdirs, uploads, results, supabase, idVars, extVars,
                   upVars, remote, objects, workerVars>>

\* await job_store.cleanup_old_jobs(max_age_hours): the number of rows selected.
PurgeExpired(max_age_hours) ==
    /\ jobs' = cleanup_old_jobs(jobs, max_age_hours)
    /\ resp' = [route |-> "cleanup_old_jobs", user |-> NoUser, job |-> NoJob, status |-> 0]
    /\ calls' = <<[op |-> "cleanup_old_jobs", ok |-> TRUE, max_age_hours |-> max_age_hours,
                   count |-> Cardinality(Expired(jobs, max_age_hours))]>>
    /\ UNCHANGED <<outdirs, uploads, results, supabase, idVars, extVars,
                   upVars, remote, objects, workerVars>>

NextSweep ==
    \/ \E u \in StoreCallers : CreateJob(UploadName, UploadPath(nextId, UploadName), u)
    \/ Tick
    \/ \E a \in 0..MaxAge : ListExpired(a)
    \/ \E a \in 0..MaxAge : PurgeExpired(a)
SpecSweep == Init /\ [][NextSweep]_vars

\* The retention sweep while the worker processes guest uploads, over a store
\* whose calls return.
NextPurge ==
    \/ Extract(NoUser)
    \/ Start
    \/ \E t \in TaskIds : Dequeue(t, TRUE)
    \/ \E n \in 1..MaxPages : DbMarkProcessing(TRUE, n)
    \/ \E id \in Jobs : ThreadProgress(id)
    \/ \E id \in Jobs, c \in 1..MaxComps : ThreadReturn(id, c)
    \/ \E id \in Jobs : ThreadRaise(id)
    \/ LoopProgress
    \/ LoopPipelineReturned
    \/ LoopPipelineRaised
    \/ DbProgress(TRUE)
    \/ DbCompleted(TRUE)
    \/ DbFailed(TRUE)
    \/ Tick
    \/ \E a \in 0..MaxAge : PurgeExpired(a)
SpecPurge == Init /\ [][NextPurge]_vars

\* ------------------------------------------- JobStore.init on an old file

\* ALTER TABLE jobs ADD COLUMN <col> ... DEFAULT <default>: every row reads
\* the default in the new column.
add_column(db, col, default) ==
    [id \in DOMAIN db |-> (col :> default) @@ db[id]]

\* _migrate: the two columns later versions added, each only when
\* PRAGMA table_info does not list it.
_migrate_total_components_only(cols, db) ==
    IF "total_components" \notin cols THEN add_column(db, "total_components", 0) ELSE db
_migrate(cols, db) ==
    LET db1 == IF "total_components" \notin cols
               THEN add_column(db, "total_components", 0) ELSE db
    IN  IF "user_id" \notin cols THEN add_column(db1, "user_id", NoUser) ELSE db1

\* The database files init() can meet: none (no jobs table yet), or a jobs
\* table of an earlier version, without total_components and/or user_id,
\* empty or holding one row written by that version.
OldJob == 101
OldColumnSets ==
    {JobColumns \ missing : missing \in SUBSET {"total_components", "user_id"}}
OldRow(cols, status) ==
    [f \in cols |->
        CASE f = "status" -> status
          [] f = "filename" -> UploadName
          [] f = "upload_path" -> UploadPath(OldJob, UploadName)
          [] f = "result_path" -> IF status = "completed" THEN "result.json" ELSE Null
          [] f = "error" -> Null
          [] f = "created_at" -> isoformat([h |-> 0, us |-> 0])
          [] f = "user_id" -> NoUser
          [] OTHER -> 0]
InitMigrate ==
    /\ nextId = 1
    /\ queue = <<>>
    /\ callers = NoCalls
    /\ disk = EmptyTable
    /\ journal = <<>>
    /\ task = 0
    /\ tasks = [t \in TaskIds |-> IdleTask]
    /\ nstarted = 0
    /\ stopper = 0
    /\ thread = [j \in Jobs |-> IdleThread]
    /\ loopq = <<>>
    /\ dbq = <<>>
    /\ outdirs = {}
    /\ uploads = {}
    /\ results = {}
    /\ supabase = "client"
    /\ remote = NoRemote
    /\ objects = {}
    /\ resp = NoResponse
    /\ calls = <<>>
    /\ interrupted = {}
    /\ lost = {}
    /\ sem = 0
    /\ uptasks = NoUploads
    /\ meta = <<>>
    /\ batch = NoBatch
    /\ now = StartTime
    /\ rdel = NoDelete
    /\ result_data = <<>>
    /\ page = NoPage
    /\ fetched = NoFetch
    /\ request = <<>>
    /\ feedback = <<>>
    /\ fs = NoFiles
    /\ body = <<>>
    /\ conn = "closed"
    /\ \/ columns = {} /\ jobs = EmptyTable
       \/ \E cols \in OldColumnSets :
             /\ columns = cols
             /\ \/ jobs = EmptyTable
                \/ \E st \in {"queued", "completed"} : jobs = (OldJob :> OldRow(cols, st))

\* await job_store.init(): CREATE TABLE IF NOT EXISTS creates the table of
\* JOBS_SCHEMA when there is none and is a no-op otherwise; then _migrate.
OpenStore ==
    /\ conn = "closed"
    /\ conn' = "open"
    /\ columns' = IF columns = {} THEN JobColumns
                  ELSE columns \cup {"total_components", "user_id"}
    /\ jobs' = IF columns = {} THEN jobs ELSE _migrate(columns, jobs)
    /\ resp' = [route |-> "init", user |-> NoUser, job |-> NoJob, status |-> 0]
    /\ calls' = <<[op |-> "init", ok |-> TRUE, had |-> columns]>>
    /\ UNCHANGED <<outdirs, uploads, results, supabase, idVars, now, rdel, pageVars,
                   upVars, remote, objects, workerVars>>

NextMigrate ==
    \/ OpenStore
    \/ /\ conn = "open"
       /\ \/ \E u \in StoreCallers : CreateJob(UploadName, UploadPath(nextId, UploadName), u)
          \/ \E id \in Jobs \cup {OldJob} :
                UpdateStatus(id, "completed", CompletedFields(MaxPages, MaxComps))
          \/ \E id \in Jobs \cup {OldJob} : UpdateStatus(id, "failed", FailedFields(StoreError))
          \/ \E id \in Jobs \cup {OldJob}, cur \in 0..MaxPages : UpdateProgress(id, cur, MaxPages)
          \/ \E id \in Jobs \cup {OldJob} : DeleteStored(id)
SpecMigrate == InitMigrate /\ [][NextMigrate]_vars

\* --------------------------------------- delete_user_job, call by call

\* The row delete comes after the storage stage.
RowStageEarly(pc) == pc \in {"listed", "removed"}
RowStage(pc) == pc = "removed"

\* The delete route calls delete_user_job once get_user_job has found the
\* requester's row.  storage.list(prefix) (ok = FALSE: it raises); an empty
\* listing skips the remove call.
DelList(user, id, ok) ==
    /\ supabase # Null
    /\ get_user_job(remote, user, id)
    /\ rdel.pc \in {"idle", "done", "raised"}
    /\ rdel' = IF ~ok
               THEN [NoDelete EXCEPT !.pc = "raised", !.user = user, !.job = id]
               ELSE [pc |-> IF list_objects(objects, user, id) = {} THEN "removed" ELSE "listed",
                     user |-> user, job |-> id,
                     files |-> list_objects(objects, user, id), deleted |-> 0, removed |-> 0]
    /\ UNCHANGED <<jobs, outdirs, uploads, results, supabase, idVars, now, schemaVars, pageVars,
                   upVars, remote, objects, resp, calls, workerVars>>

\* storage.remove(paths), then deleted_objects = len(paths); `removed` counts
\* the objects that left the bucket.
DelRemove(ok) ==
    /\ rdel.pc = "listed"
    /\ IF ok
       THEN /\ objects' = objects \ rdel.files
            /\ rdel' = [rdel EXCEPT !.pc = "removed",
                                    !.deleted = Cardinality(rdel.files),
                                    !.removed = Cardinality(objects \cap rdel.files)]
       ELSE /\ objects' = objects
            /\ rdel' = [rdel EXCEPT !.pc = "raised"]
    /\ UNCHANGED <<jobs, outdirs, uploads, results, supabase, idVars, now, schemaVars, pageVars,
                   upVars, remote, resp, calls, workerVars>>

\* table("jobs").delete().eq("id", ...).eq("user_id", ...), then
\* `return DeleteResult(deleted_objects)`.
DelRow(ok) ==
    /\ RowStage(rdel.pc)
    /\ IF ok
       THEN /\ remote' = delete_user_row(remote, rdel.user, rdel.job)
            /\ rdel' = [rdel EXCEPT !.pc = "done"]
       ELSE /\ remote' = remote
            /\ rdel' = [rdel EXCEPT !.pc = "raised"]
    /\ UNCHANGED <<jobs, outdirs, uploads, results, supabase, idVars, now, schemaVars, pageVars,
                   upVars, objects, resp, calls, workerVars>>

NextRemoteDelete ==
    \/ \E u \in Users, id \in Jobs : SaveJob(u, id)
    \/ \E u \in Users, id \in Jobs, ok \in BOOLEAN : DelList(u, id, ok)
    \/ \E ok \in BOOLEAN : DelRemove(ok)
    \/ \E ok \in BOOLEAN : DelRow(ok)
SpecRemoteDelete == Init /\ [][NextRemoteDelete]_vars

\* ----------------------------------- status / result / components routes

\* The flattening of pages then components.
RECURSIVE Flatten(_)
Flatten(pages) == IF pages = <<>> THEN <<>> ELSE Head(pages) \o Flatten(Tail(pages))

\* Python's seq[start:stop]: a negative index counts from the end, and both
\* are clamped to 0..len.
PyIndex(i, n) == IF i < 0 THEN (IF i + n < 0 THEN 0 ELSE i + n) ELSE (IF i > n THEN n ELSE i)
PySlice(seq, start, stop) ==
    LET a == PyIndex(start, Len(seq))
        b == PyIndex(stop, Len(seq))
    IN  IF b <= a THEN <<>> ELSE [i \in 1..(b - a) |-> seq[a + i]]

\* batch = all_components[offset : offset + limit];
\* has_more = (offset + limit) < total
ComponentBatchResponse(pages, offset, limit) ==
    [offset |-> offset, limit |-> limit, total |-> Len(Flatten(pages)),
     has_more |-> (offset + limit) < Len(Flatten(pages)),
     components |-> PySlice(Flatten(pages), offset, offset + limit)]

\* What get_job_result and get_result_components answer before they read the
\* result: 422 for a malformed id, 404 without a row, 409 unless the row is
\* 'completed', 404 when result_path is null or names no file, else 200.
ResultStatusIgnoringStatus(db, res, id) ==
    IF id = BadId THEN 422
    ELSE IF get_job(db, id) = <<>> THEN 404
    ELSE IF db[id].result_path = Null \/ id \notin res THEN 404
    ELSE 200
ResultStatus(db, res, id) ==
    IF id = BadId THEN 422
    ELSE IF get_job(db, id) = <<>> THEN 404
    ELSE IF db[id].status # "completed" THEN 409
    ELSE IF db[id].result_path = Null \/ id \notin res THEN 404
    ELSE 200

\* GET /jobs/{job_id}
StatusRoute(id) ==
    /\ Reply("status", NoUser, id,
             IF id = BadId THEN 422 ELSE IF get_job(jobs, id) = <<>> THEN 404 ELSE 200,
             IF id = BadId THEN <<>> ELSE <<Call("get_job", TRUE)>>)
    /\ UNCHANGED pageVars
    /\ UNCHANGED <<jobs, outdirs, uploads, results, supabase, idVars, now, schemaVars, rdel,
                   upVars, remote, objects, workerVars>>

\* The row of a job whose result was just served: the routes write nothing.
ServedRowDelivered(row) == [row EXCEPT !.status = "delivered"]
ServedRow(row) == row

\* GET /jobs/{job_id}/result
ResultRoute(id) ==
    /\ Reply("result", NoUser, id, ResultStatus(jobs, results, id),
             IF id = BadId THEN <<>> ELSE <<Call("get_job", TRUE)>>)
    /\ jobs' = IF ResultStatus(jobs, results, id) = 200
               THEN [jobs EXCEPT ![id] = ServedRow(@)]
               ELSE jobs
    /\ UNCHANGED pageVars
    /\ UNCHANGED <<outdirs, uploads, results, supabase, idVars, now, schemaVars, rdel,
                   upVars, remote, objects, workerVars>>

\* GET /jobs/{job_id}/result/components?offset=&limit=
ComponentsRoute(id, offset, limit) ==
    /\ Reply("components", NoUser, id, ResultStatus(jobs, results, id),
             IF id = BadId THEN <<>> ELSE <<Call("get_job", TRUE)>>)
    /\ page' = IF ResultStatus(jobs, results, id) = 200
               THEN ComponentBatchResponse(result_data, offset, limit)
               ELSE [NoPage EXCEPT !.offset = offset, !.limit = limit]
    /\ jobs' = IF ResultStatus(jobs, results, id) = 200
               THEN [jobs EXCEPT ![id] = ServedRow(@)]
               ELSE jobs
    /\ UNCHANGED <<result_data, fetched>>
    /\ UNCHANGED <<outdirs, uploads, results, supabase, idVars, now, schemaVars, rdel,
                   upVars, remote, objects, workerVars>>

\* run_pipeline writes the job's result JSON; cleanup removes it.  Neither is
\* a request: no response is outstanding after them.
ArtifactWritten(id) ==
    /\ id \in DOMAIN jobs
    /\ id \notin results
    /\ results' = results \cup {id}
    /\ outdirs' = outdirs \cup {id}
    /\ resp' = NoResponse
    /\ calls' = <<>>
    /\ UNCHANGED <<jobs, uploads, supabase, idVars, extVars, upVars, remote, objects, workerVars>>
ArtifactRemoved(id) ==
    /\ id \in results
    /\ results' = results \ {id}
    /\ resp' = NoResponse
    /\ calls' = <<>>
    /\ UNCHANGED <<jobs, outdirs, uploads, supabase, idVars, extVars, upVars, remote, objects,
                   workerVars>>

\* The statuses a row can be given, 'completed' with the fields of a completion.
RowStatuses == VALID_STATUSES \ {"queued"}
StatusFields(status) ==
    IF status = "completed" THEN CompletedFields(MaxPages, MaxComps) ELSE NoFields

\* The routes read over a result of two pages.
InitRead ==
    /\ jobs = EmptyTable
    /\ nextId = 1
    /\ queue = <<>>
    /\ callers = NoCalls
    /\ disk = EmptyTable
    /\ journal = <<>>
    /\ task = 0
    /\ tasks = [t \in TaskIds |-> IdleTask]
    /\ nstarted = 0
    /\ stopper = 0
    /\ thread = [j \in Jobs |-> IdleThread]
    /\ loopq = <<>>
    /\ dbq = <<>>
    /\ outdirs = {}
    /\ uploads = {}
    /\ results = {}
    /\ supabase = "client"
    /\ remote = NoRemote
    /\ objects = {}
    /\ resp = NoResponse
    /\ calls = <<>>
    /\ interrupted = {}
    /\ lost = {}
    /\ sem = 0
    /\ uptasks = NoUploads
    /\ meta = <<>>
    /\ batch = NoBatch
    /\ now = StartTime
    /\ columns = JobColumns
    /\ conn = "open"
    /\ rdel = NoDelete
    /\ page = NoPage
    /\ fetched = NoFetch
    /\ request = <<>>
    /\ feedback = <<>>
    /\ fs = NoFiles
    /\ body = <<>>
    /\ result_data = <<<<1>>, <<2, 3>>>>

NextRead ==
    \/ \E u \in {NoUser} : Extract(u)
    \/ \E id \in Jobs, st \in RowStatuses : UpdateStatus(id, st, StatusFields(st))
    \/ \E id \in Jobs : ArtifactWritten(id)
    \/ \E id \in Jobs : ArtifactRemoved(id)
    \/ \E id \in {BadId} \cup Jobs : StatusRoute(id)
    \/ \E id \in {BadId} \cup Jobs : ResultRoute(id)
    \/ \E id \in {BadId} \cup Jobs, limit \in {1, MaxTotal} : ComponentsRoute(id, 0, limit)
SpecRead == InitRead /\ [][NextRead]_vars

\* ------------------------------------------------- paging through a result

\* A result of n components with ids 1..n, the first k of them on page 1 and
\* the rest on page 2.
Split(n, k) == << [i \in 1..k |-> i], [i \in 1..(n - k) |-> k + i] >>
Layouts == UNION {{Split(n, k) : k \in 0..n} : n \in 0..MaxTotal}
\* The query parameters: offset: int = 0, limit: int = 10, not validated.
Offsets == (0 - 1)..(MaxTotal + 1)
Limits == (0 - 1)..MaxTotal

\* Job 1 is completed and its result holds one of the layouts.
InitPages ==
    /\ queue = <<>>
    /\ callers = NoCalls
    /\ disk = EmptyTable
    /\ journal = <<>>
    /\ task = 0
    /\ tasks = [t \in TaskIds |-> IdleTask]
    /\ nstarted = 0
    /\ stopper = 0
    /\ thread = [j \in Jobs |-> IdleThread]
    /\ loopq = <<>>
    /\ dbq = <<>>
    /\ supabase = "client"
    /\ remote = NoRemote
    /\ objects = {}
    /\ resp = NoResponse
    /\ calls = <<>>
    /\ interrupted = {}
    /\ lost = {}
    /\ sem = 0
    /\ uptasks = NoUploads
    /\ meta = <<>>
    /\ batch = NoBatch
    /\ now = StartTime
    /\ columns = JobColumns
    /\ conn = "open"
    /\ rdel = NoDelete
    /\ page = NoPage
    /\ fetched = NoFetch
    /\ request = <<>>
    /\ feedback = <<>>
    /\ fs = NoFiles
    /\ body = <<>>
    /\ \E pages \in Layouts : result_data = pages
    /\ jobs = update_status(create_job(EmptyTable, 1, UploadName, UploadPath(1, UploadName), NoUser),
                            1, "completed", CompletedFields(MaxPages, MaxComps))
    /\ nextId = 2
    /\ uploads = {1}
    /\ outdirs = {1}
    /\ results = {1}

\* The client loop: offset = 0; fetch; stop unless has_more; offset += limit.
ClientStart(limit) ==
    /\ fetched' = [st |-> "fetching", limit |-> limit, offset |-> 0, got |-> <<>>]
    /\ resp' = NoResponse
    /\ calls' = <<>>
    /\ UNCHANGED <<result_data, page>>
    /\ UNCHANGED <<jobs, outdirs, uploads, results, supabase, idVars, now, schemaVars, rdel,
                   upVars, remote, objects, workerVars>>
ClientNext ==
    /\ fetched.st = "fetching"
    /\ fetched.offset >= 0 - MaxTotal
    /\ Len(fetched.got) <= 2 * MaxTotal
    /\ Reply("components", NoUser, 1, ResultStatus(jobs, results, 1), <<Call("get_job", TRUE)>>)
    /\ page' = ComponentBatchResponse(result_data, fetched.offset, fetched.limit)
    /\ fetched' = [st |-> IF page'.has_more THEN "fetching" ELSE "done",
                   limit |-> fetched.limit,
                   offset |-> fetched.offset + fetched.limit,
                   got |-> fetched.got \o page'.components]
    /\ UNCHANGED result_data
    /\ UNCHANGED <<jobs, outdirs, uploads, results, supabase, idVars, now, schemaVars, rdel,
                   upVars, remote, objects, workerVars>>

NextPages ==
    \/ \E offset \in Offsets, limit \in Limits : ComponentsRoute(1, offset, limit)
    \/ \E limit \in Limits : ClientStart(limit)
    \/ ClientNext
SpecPages == InitPages /\ [][NextPages]_vars

\* ------------------------------------------------------------ job id strings

\* A job id is uuid4().hex: the hex digits of an integer, IdLen of them here
\* (32 in the program).  The model's job ids are those integers; a string is a
\* sequence of characters.
HexChars == <<"0", "1", "2", "3", "4", "5", "6", "7", "8", "9", "a", "b", "c", "d", "e", "f">>
UpperChars == <<"0", "1", "2", "3", "4", "5", "6", "7", "8", "9", "A", "B", "C", "D", "E", "F">>
IsHex(c) == \E d \in 1..16 : HexChars[d] = c \/ UpperChars[d] = c
DigitOf(c) == (CHOOSE d \in 1..16 : HexChars[d] = c \/ UpperChars[d] = c) - 1

\* The characters of the job id strings requests are sent with, and the strings.
IdChars == {"0", "1", "A", "-", "+", "g"}
RawIds == UNION {[1..n -> IdChars] : n \in 0..(IdLen + 1)}

\* int(s, 16): an optional sign, then hex digits of either case.  (Of what
\* int() also takes, blanks, "_" and "0x" are not among IdChars; a "-" never
\* reaches it.)
Unsigned(s) == IF s # <<>> /\ Head(s) = "+" THEN Tail(s) ELSE s
IsIntLiteral(s) == Unsigned(s) # <<>> /\ \A i \in DOMAIN Unsigned(s) : IsHex(Unsigned(s)[i])
RECURSIVE ValueOf(_)
ValueOf(digits) ==
    IF digits = <<>> THEN 0
    ELSE 16 * ValueOf(SubSeq(digits, 1, Len(digits) - 1)) + DigitOf(digits[Len(digits)])
\* '%032x' % int
RECURSIVE ToHex(_, _)
ToHex(n, width) ==
    IF width = 0 THEN <<>> ELSE Append(ToHex(n \div 16, width - 1), HexChars[(n % 16) + 1])

\* uuid.UUID(s): every "-" is removed, the rest must be IdLen characters that
\* int(_, 16) accepts; ValueError otherwise.  ("urn:", "uuid:" and braces, which
\* UUID() strips too, are not among IdChars.)
Undashed(s) == SelectSeq(s, LAMBDA c : c # "-")
ValueError(s) == Len(Undashed(s)) # IdLen \/ ~IsIntLiteral(Undashed(s))

\* _normalize_job_id: uuid.UUID(job_id).hex, or HTTP 422 on ValueError.
Unprocessable == <<>>
_normalize_job_id(job_id) ==
    IF ValueError(job_id) THEN Unprocessable
    ELSE ToHex(ValueOf(Unsigned(Undashed(job_id))), IdLen)

\* The row a key selects: both stores are keyed by the hex id (the remote one by
\* its dashed form, _job_uuid), so a key that is no lowercase hex id selects
\* nothing.
NoSuchKey == 0 - 2
RowOf(key) ==
    IF key = Unprocessable THEN BadId
    ELSE IF Len(key) = IdLen /\ \A i \in DOMAIN key : \E d \in 1..16 : HexChars[d] = key[i]
    THEN ValueOf(key)
    ELSE NoSuchKey

\* The row a request selects with the job id string it carries.
Requested(job_id) == RowOf(_normalize_job_id(job_id))

\* POST /feedback
SubmitFeedback(job_id) ==
    LET key == _normalize_job_id(job_id)
        id == RowOf(key)
    IN  /\ Len(feedback) < MaxFeedback
        /\ IF key = Unprocessable
           THEN /\ Reply("feedback", NoUser, id, 422, <<>>)
                /\ feedback' = feedback
           ELSE IF get_job(jobs, id) = <<>>
           THEN /\ Reply("feedback", NoUser, id, 404, <<Call("get_job", TRUE)>>)
                /\ feedback' = feedback
           ELSE /\ Reply("feedback", NoUser, id, 201,
                         <<Call("get_job", TRUE), Call("create_feedback", TRUE)>>)
                /\ feedback' = Append(feedback, key)
        /\ UNCHANGED <<jobs, outdirs, uploads, results, supabase, request, fs, body, connVars, extVars, upVars,
                       remote, objects, workerVars>>

\* A client that sends one job id string, any of RawIds, to every route that
\* takes a job id, while jobs are uploaded and saved.
InitIds ==
    /\ \E job_id \in RawIds : request = job_id
    /\ jobs = EmptyTable
    /\ nextId = 1
    /\ queue = <<>>
    /\ callers = NoCalls
    /\ disk = EmptyTable
    /\ journal = <<>>
    /\ task = 0
    /\ tasks = [t \in TaskIds |-> IdleTask]
    /\ nstarted = 0
    /\ stopper = 0
    /\ thread = [j \in Jobs |-> IdleThread]
    /\ loopq = <<>>
    /\ dbq = <<>>
    /\ outdirs = {}
    /\ uploads = {}
    /\ results = {}
    /\ supabase = "client"
    /\ remote = NoRemote
    /\ objects = {}
    /\ resp = NoResponse
    /\ calls = <<>>
    /\ interrupted = {}
    /\ lost = {}
    /\ sem = 0
    /\ uptasks = NoUploads
    /\ meta = <<>>
    /\ batch = NoBatch
    /\ now = StartTime
    /\ columns = JobColumns
    /\ conn = "open"
    /\ rdel = NoDelete
    /\ result_data = <<>>
    /\ page = NoPage
    /\ fetched = NoFetch
    /\ feedback = <<>>
    /\ fs = NoFiles
    /\ body = <<>>

IdRequesters == {NoUser, "u1"}
NextIds ==
    \/ \E u \in IdRequesters : Extract(u)
    \/ \E id \in Jobs : SaveCompleted(id)
    \/ StatusRoute(Requested(request))
    \/ ResultRoute(Requested(request))
    \/ ComponentsRoute(Requested(request), 0, MaxTotal)
    \/ \E u \in IdRequesters : DeleteRoute(u, Requested(request))
    \/ \E u \in IdRequesters : RenameRoute(u, Requested(request), <<"a">>)
    \/ SubmitFeedback(request)
SpecIds == InitIds /\ [][NextIds]_vars

\* ------------------------------------------------------------ rename requests

\* RenameJobRequest: base_name is a str of max_length 120, checked on the
\* string as sent, before the handler runs.
BaseNameFieldMax == 120
RenameJobRequest(base_name) == Len(base_name) <= BaseNameFieldMax

MaxShortName == 2
RenameChars == Chars \cup {"BACKSLASH"} \cup ControlChars
Repeat(c, n) == [i \in 1..n |-> c]
\* Every short name, and the names at the length limit.
RenameNames ==
    UNION {[1..n -> RenameChars] : n \in 0..MaxShortName}
        \cup {Repeat("a", MAX_BASE_NAME_LENGTH), Repeat("a", MAX_BASE_NAME_LENGTH + 1),
              <<" ">> \o Repeat("a", MAX_BASE_NAME_LENGTH)}

\* PATCH /jobs/{job_id}/rename with the body {"base_name": body}.
RenameRequest(requester, id) ==
    IF RenameJobRequest(body)
    THEN RenameRoute(requester, id, body)
    ELSE /\ Reply("rename", requester, id, 422, <<>>)
         /\ UNCHANGED <<jobs, remote, outdirs, uploads, results, objects, supabase, idVars,
                        extVars, upVars, workerVars>>

\* A client that sends one base name, any of RenameNames, in its rename
\* requests, while jobs are uploaded and saved.
InitRename ==
    /\ \E base_name \in RenameNames : body = base_name
    /\ jobs = EmptyTable
    /\ nextId = 1
    /\ queue = <<>>
    /\ callers = NoCalls
    /\ disk = EmptyTable
    /\ journal = <<>>
    /\ task = 0
    /\ tasks = [t \in TaskIds |-> IdleTask]
    /\ nstarted = 0
    /\ stopper = 0
    /\ thread = [j \in Jobs |-> IdleThread]
    /\ loopq = <<>>
    /\ dbq = <<>>
    /\ outdirs = {}
    /\ uploads = {}
    /\ results = {}
    /\ supabase = "client"
    /\ remote = NoRemote
    /\ objects = {}
    /\ resp = NoResponse
    /\ calls = <<>>
    /\ interrupted = {}
    /\ lost = {}
    /\ sem = 0
    /\ uptasks = NoUploads
    /\ meta = <<>>
    /\ batch = NoBatch
    /\ now = StartTime
    /\ columns = JobColumns
    /\ conn = "open"
    /\ rdel = NoDelete
    /\ result_data = <<>>
    /\ page = NoPage
    /\ fetched = NoFetch
    /\ request = <<>>
    /\ feedback = <<>>
    /\ fs = NoFiles

RenameRequesters == {NoUser, "u1", "u2"}
NextRename ==
    \/ \E u \in IdRequesters : Extract(u)
    \/ \E id \in Jobs : SaveCompleted(id)
    \/ \E u \in RenameRequesters, id \in Jobs : RenameRequest(u, id)
SpecRename == InitRename /\ [][NextRename]_vars

\* The slash, the backslash and the control characters.
Forbidden == {"/", "BACKSLASH", "LF", "NUL"}
Contains(name, chars) == \E i \in 1..Len(name) : name[i] \in chars
\* The rename request answered in this step was sent by the owner of the
\* remote row it names.
RenameByOwner ==
    /\ resp'.route = "rename"
    /\ resp'.user # NoUser
    /\ resp'.job \in DOMAIN remote
    /\ remote[resp'.job].user_id = resp'.user
RenamedTo(name) ==
    remote'[resp'.job].title = [base |-> name, ext |-> remote[resp'.job].title.ext]

BUCKET_NAME == "scans"
\* A key the pipeline left out of a component dict.
Missing == "missing"
\* dict.get(key, default)
Get(d, key, default) == IF d[key] = Missing THEN default ELSE d[key]

\* The components the pipeline can put on a page: base64 absent, empty or the
\* encoding of a PNG, the category present or not; every value as its text.
ComponentDicts ==
    [id : {1, 2}, base64 : {Missing, "", "iVBOR"}, category : {Missing, "figure"},
     original_label : {"Figure"}, confidence : {"0.9"}, bbox : {"[0, 0, 4, 4]"}]
ComponentLists == UNION {[1..n -> ComponentDicts] : n \in 0..MaxPageComps}
ResultPages ==
    UNION {[1..n -> ComponentLists] : n \in 0..MaxResultPages}
\* result_data["pages"]: page i is numbered 2 * i.
PagesOf(lists) == [i \in DOMAIN lists |-> [page_number |-> 2 * i, components |-> lists[i]]]

\* `for page in pages: for comp in page.get("components", [])`, each component
\* with its page's number.
RECURSIVE InOrder(_)
InOrder(pages) ==
    IF pages = <<>> THEN <<>>
    ELSE [i \in DOMAIN Head(pages).components |->
             [page_number |-> Head(pages).page_number, comp |-> Head(pages).components[i]]]
         \o InOrder(Tail(pages))

\* `if not b64_data: continue`
NeverSkipped(comp) == TRUE
HasBase64(comp) == Get(comp, "base64", "") # ""

\* object_path = f"{user_id}/{job_id}/{comp_id}.png" and the public URL on it.
object_path(user, job, comp) == <<user, job, comp.id>>
public_url(supabase_url, path) ==
    [base |-> supabase_url, prefix |-> "/storage/v1/object/public/",
     bucket |-> BUCKET_NAME, path |-> path]

\* The meta entry and the upload task of one component.
MetaEntry(user, job, supabase_url, e) ==
    [id |-> e.comp.id, page_number |-> e.page_number,
     category |-> Get(e.comp, "category", ""),
     original_label |-> Get(e.comp, "original_label", ""),
     confidence |-> Get(e.comp, "confidence", "0"),
     bbox |-> Get(e.comp, "bbox", "[]"),
     url |-> public_url(supabase_url, object_path(user, job, e.comp))]
UploadTask(user, job, e) ==
    [path |-> object_path(user, job, e.comp), data |-> e.comp.base64]
Uploadable(pages) == SelectSeq(InOrder(pages), LAMBDA e : HasBase64(e.comp))

SupabaseUrl == "https://project.supabase.co"

\* upload_components_to_supabase(user_id, job_id, result_data, ...) as one call:
\* every task's upload returns and meta is returned, or (raised) some upload
\* exhausted its retries, the call raises and returns nothing.
UploadComponents(user, job, raised) ==
    LET kept == Uploadable(result_data)
        tasks_ == [i \in DOMAIN kept |-> UploadTask(user, job, kept[i])]
    IN  /\ batch.st = "idle"
        /\ supabase # Null
        /\ uptasks' = tasks_
        /\ IF raised
           THEN /\ kept # <<>>
                /\ meta' = <<>>
                /\ objects' = objects
                /\ batch' = [batch EXCEPT !.st = "raised"]
           ELSE /\ meta' = [i \in DOMAIN kept |-> MetaEntry(user, job, SupabaseUrl, kept[i])]
                /\ objects' = objects \cup {tasks_[i].path : i \in DOMAIN tasks_}
                /\ batch' = [batch EXCEPT !.st = "returned"]
        /\ resp' = [route |-> "upload_components", user |-> user, job |-> job, status |-> 0]
        /\ UNCHANGED <<jobs, outdirs, uploads, results, supabase, idVars, extVars, sem, remote,
                       calls, workerVars>>

\* The call over every pipeline output of up to MaxResultPages pages.
InitMeta ==
    /\ \E lists \in ResultPages : result_data = PagesOf(lists)
    /\ jobs = EmptyTable
    /\ nextId = 1
    /\ queue = <<>>
    /\ callers = NoCalls
    /\ disk = EmptyTable
    /\ journal = <<>>
    /\ task = 0
    /\ tasks = [t \in TaskIds |-> IdleTask]
    /\ nstarted = 0
    /\ stopper = 0
    /\ thread = [j \in Jobs |-> IdleThread]
    /\ loopq = <<>>
    /\ dbq = <<>>
    /\ outdirs = {}
    /\ uploads = {}
    /\ results = {}
    /\ supabase = "client"
    /\ remote = NoRemote
    /\ objects = {}
    /\ resp = NoResponse
    /\ calls = <<>>
    /\ interrupted = {}
    /\ lost = {}
    /\ sem = 0
    /\ uptasks = NoUploads
    /\ meta = <<>>
    /\ batch = NoBatch
    /\ now = StartTime
    /\ columns = JobColumns
    /\ conn = "open"
    /\ rdel = NoDelete
    /\ page = NoPage
    /\ fetched = NoFetch
    /\ request = <<>>
    /\ feedback = <<>>
    /\ fs = NoFiles
    /\ body = <<>>
NextMeta ==
    \E user \in Users, job \in Jobs, raised \in BOOLEAN : UploadComponents(user, job, raised)
SpecMeta == InitMeta /\ [][NextMeta]_vars

\* ------------------------------------------ cleanup_job_files (worker.py)

\* A path is the sequence of its names below the base directory, <<>>; NoPath
\* stands for None.
NoPath == <<Null>>
parent(p) == SubSeq(p, 1, Len(p) - 1)
is_file(f, p) == p \in DOMAIN f /\ f[p] = "file"
is_dir(f, p) == p \in DOMAIN f /\ f[p] = "dir"
\* What lies at or below p, and a tree without some of its paths.
Below(f, p) == {q \in DOMAIN f : Len(q) >= Len(p) /\ SubSeq(q, 1, Len(p)) = p}
Without(f, ps) == [q \in (DOMAIN f) \ ps |-> f[q]]

\* `parent.exists() and not any(parent.iterdir())`
ExistsOnly(f, dir) == dir \in DOMAIN f
ExistsAndEmpty(f, dir) == dir \in DOMAIN f /\ Below(f, dir) = {dir}

\* One round of the loop: a file is unlinked and its parent removed when that
\* leaves it empty; a directory is removed with all below it; None and a
\* missing path are passed over.
cleanup_path(f, p) ==
    IF p = NoPath THEN f
    ELSE IF is_file(f, p)
    THEN LET unlinked == Without(f, {p})
         IN  IF ExistsAndEmpty(unlinked, parent(p))
             THEN Without(unlinked, Below(unlinked, parent(p)))
             ELSE unlinked
    ELSE IF is_dir(f, p) THEN Without(f, Below(f, p))
    ELSE f
cleanup_job_files(f, upload_path, result_path) ==
    cleanup_path(cleanup_path(f, upload_path), result_path)

\* The trees: under the base directory, "u" and "o" are each missing, a file,
\* or a directory holding any of two entries, each a file or an empty directory.
Entries == {"a", "b"}
Kinds == {"none", "file", "dir"}
TreeOf(ku, ko, eu, eo) ==
    LET top(name, k) == IF k = "none" THEN {} ELSE {<<name>>}
        sub(name, k, e) == IF k = "dir" THEN {<<name, x>> : x \in {y \in Entries : e[y] # "none"}}
                           ELSE {}
        kind(q) == IF Len(q) = 0 THEN "dir"
                   ELSE IF Len(q) = 1 THEN (IF q[1] = "u" THEN ku ELSE ko)
                   ELSE (IF q[1] = "u" THEN eu[q[2]] ELSE eo[q[2]])
    IN  [q \in {<<>>} \cup top("u", ku) \cup top("o", ko) \cup sub("u", ku, eu) \cup sub("o", ko, eo)
            |-> kind(q)]
Trees == {TreeOf(ku, ko, eu, eo) :
             ku \in Kinds, ko \in Kinds, eu \in [Entries -> Kinds], eo \in [Entries -> Kinds]}
\* The paths a job row can hold: None, or any path of up to two names.
PathArgs == {NoPath} \cup {<<t>> : t \in {"u", "o"}}
                   \cup {<<t, x>> : t \in {"u", "o"}, x \in Entries}

\* ExtractionWorker.cleanup_job_files(upload_path, result_path)
CleanupJobFiles(upload_path, result_path) ==
    /\ fs' = cleanup_job_files(fs, upload_path, result_path)
    /\ resp' = [route |-> "cleanup_job_files", user |-> NoUser, job |-> NoJob, status |-> 0]
    /\ calls' = <<[op |-> "cleanup_job_files", ok |-> TRUE, upload_path |-> upload_path,
                   result_path |-> result_path, before |-> fs]>>
    /\ UNCHANGED <<jobs, outdirs, uploads, results, supabase, request, feedback, body, connVars, extVars,
                   upVars, remote, objects, workerVars>>

InitFiles ==
    /\ \E tree \in Trees : fs = tree
    /\ body = <<>>
    /\ jobs = EmptyTable
    /\ nextId = 1
    /\ queue = <<>>
    /\ callers = NoCalls
    /\ disk = EmptyTable
    /\ journal = <<>>
    /\ task = 0
    /\ tasks = [t \in TaskIds |-> IdleTask]
    /\ nstarted = 0
    /\ stopper = 0
    /\ thread = [j \in Jobs |-> IdleThread]
    /\ loopq = <<>>
    /\ dbq = <<>>
    /\ outdirs = {}
    /\ uploads = {}
    /\ results = {}
    /\ supabase = "client"
    /\ remote = NoRemote
    /\ objects = {}
    /\ resp = NoResponse
    /\ calls = <<>>
    /\ interrupted = {}
    /\ lost = {}
    /\ sem = 0
    /\ uptasks = NoUploads
    /\ meta = <<>>
    /\ batch = NoBatch
    /\ now = StartTime
    /\ columns = JobColumns
    /\ conn = "open"
    /\ rdel = NoDelete
    /\ result_data = <<>>
    /\ page = NoPage
    /\ fetched = NoFetch
    /\ request = <<>>
    /\ feedback = <<>>
NextFiles ==
    \E upload_path \in PathArgs, result_path \in PathArgs :
        CleanupJobFiles(upload_path, result_path)
SpecFiles == InitFiles /\ [][NextFiles]_vars

\* ---------------------------------------------------------------- claims

\* Jobs whose pipeline was in flight in a consumer when stop() cancelled it.
abandoned == {r.job : r \in {x \in interrupted : x.pc = "pipeline"}}
\* Jobs a consumer was handling, at any point of _process_job, when stop()
\* cancelled it.
cutShort == {r.job : r \in interrupted}

Processing == {id \in DOMAIN jobs : jobs[id].status = "processing"}
Terminal(id) == id \in DOMAIN jobs /\ jobs[id].status \in {"completed", "failed"}

\* C1: in every reachable state at most one job row has status 'processing'.
C1_AtMostOneProcessing == Cardinality(Processing) <= 1

\* C2: ids are enqueued in the order create_job generates them; whenever a later
\* enqueued job b has been marked 'processing' (its status is no longer
\* 'queued'), every job a enqueued before it is 'completed' or 'failed', or its
\* row is gone.
C2_StrictFifo ==
    \A a \in DOMAIN jobs, b \in DOMAIN jobs :
        (a < b /\ jobs[b].status # "queued") => Terminal(a)

Allowed == {<<"queued", "processing">>, <<"processing", "completed">>,
            <<"processing", "failed">>}

PipelineRaisedFor(id) ==
    /\ loopq # <<>>
    /\ Head(loopq).ev = "done" /\ ~Head(loopq).ok /\ Head(loopq).job = id
    /\ Awaiting(id) # {}
    /\ loopq' = Tail(loopq)

\* The step in which a 'failed' write for id is applied to its row.
FailedAppliedTo(id) ==
    /\ dbq # <<>>
    /\ Head(dbq).op = "status" /\ Head(dbq).status = "failed" /\ Head(dbq).job = id
    /\ dbq' = Tail(dbq)
    /\ id \in DOMAIN jobs
    /\ jobs' # jobs

\* C4: when the pipeline raises for a job, the output directory is removed and
\* the 'failed' write carrying the exception's message is issued in that step;
\* when that write is applied, the row is 'failed' with that message as error;
\* and every 'failed' row has a non-null error and no output directory.
C4_PipelineFailure ==
    /\ [][ \A id \in Jobs :
             /\ PipelineRaisedFor(id) =>
                   /\ id \notin outdirs'
                   /\ dbq' = Append(dbq, [op |-> "status", job |-> id,
                                          task |-> CHOOSE t \in Awaiting(id) : TRUE,
                                          status |-> "failed",
                                          kw |-> [error |-> PipelineError]])
             /\ FailedAppliedTo(id) =>
                   /\ jobs'[id].status = "failed"
                   /\ jobs'[id].error = Head(dbq).kw.error ]_vars
    /\ [](\A id \in DOMAIN jobs :
             jobs[id].status = "failed" =>
                 jobs[id].error # Null /\ id \notin outdirs)

\* A job whose pipeline raised is 'failed' with the pipeline's message.
C4_Witness ==
    \E id \in DOMAIN jobs :
        /\ jobs[id].status = "failed"
        /\ jobs[id].error = PipelineError
        /\ id \notin outdirs

PendingProgress(id) ==
    \/ \E i \in 1..Len(loopq) : loopq[i].ev = "progress" /\ loopq[i].job = id
    \/ \E i \in 1..Len(dbq) : dbq[i].op = "progress" /\ dbq[i].job = id

\* C6: progress updates and the terminal write of a job reach the store in
\* issue order: on the connection queue no progress update of a job stands
\* behind that job's 'completed' or 'failed' write, and once the row is
\* 'completed' or 'failed' no progress update for it is pending anywhere, so
\* the pages of a 'completed' row stay those of the terminal write.
C6_ProgressBeforeTerminal ==
    /\ \A i \in 1..Len(dbq), k \in 1..Len(dbq) :
          (/\ dbq[i].op = "status" /\ dbq[i].status \in {"completed", "failed"}
           /\ dbq[k].op = "progress" /\ dbq[k].job = dbq[i].job) => k < i
    /\ \A i \in 1..Len(dbq) :
          (dbq[i].op = "status" /\ dbq[i].status \in {"completed", "failed"})
              => ~\E k \in 1..Len(loopq) :
                     loopq[k].ev = "progress" /\ loopq[k].job = dbq[i].job
    /\ \A id \in DOMAIN jobs : Terminal(id) => ~PendingProgress(id)
    /\ \A id \in DOMAIN jobs :
          jobs[id].status = "completed" =>
              /\ jobs[id].current_page = jobs[id].total_pages
              /\ jobs[id].total_pages = thread[id].tot

\* A job is 'completed' after its pipeline reported every page.
C6_Witness ==
    \E id \in DOMAIN jobs :
        /\ jobs[id].status = "completed"
        /\ thread[id].rep >= 1
        /\ jobs[id].current_page = thread[id].rep

StatusPending(id) ==
    \E i \in 1..Len(dbq) : dbq[i].op = "status" /\ dbq[i].job = id

InLoop(t) == tasks[t].pc \in {"wait", "mark", "pipeline", "completing", "failing"}
\* A consumer task stop() has not cancelled.
Uncancelled(t) == tasks[t].pc \notin {"unborn", "cancelling", "done"}
Queued(id) == \E i \in 1..Len(queue) : queue[i] = id
\* The job's pipeline call has been made by a consumer that still handles it.
Handled(id) ==
    \E t \in TaskIds :
        tasks[t].job = id /\ tasks[t].pc \in {"pipeline", "completing", "failing"}
\* Outcomes the claim allows for: the job reached a terminal status, its row
\* was deleted meanwhile, or stop() cancelled the consumer while it handled
\* the job (the worker was no longer running).
Settled(id) == Terminal(id) \/ id \notin DOMAIN jobs \/ id \in cutShort

\* C5 as stated: no exception ends a consumer task (only cancellation does), a
\* queued id is eventually dequeued while an uncancelled consumer exists, and
\* every job whose pipeline call was made eventually is 'completed' or 'failed'.
C5_AsStated ==
    /\ [][ \A t \in TaskIds :
             InLoop(t) => (InLoop(t)' \/ tasks'[t].pc = "cancelling") ]_vars
    /\ \A id \in Jobs :
          (Queued(id) /\ \E t \in TaskIds : Uncancelled(t))
              ~> (~Queued(id) \/ ~\E t \in TaskIds : Uncancelled(t))
    /\ \A id \in Jobs : Handled(id) ~> Settled(id)

\* C5 as amended: the same, except that a job whose 'failed' write itself
\* raised stays 'processing' (the loop logs the exception and goes on).
C5_FaultIsolation ==
    /\ [][ \A t \in TaskIds :
             InLoop(t) => (InLoop(t)' \/ tasks'[t].pc = "cancelling") ]_vars
    /\ \A id \in Jobs :
          (Queued(id) /\ \E t \in TaskIds : Uncancelled(t))
              ~> (~Queued(id) \/ ~\E t \in TaskIds : Uncancelled(t))
    /\ \A id \in Jobs : Handled(id) ~> (Settled(id) \/ id \in lost)

\* After a job's 'failed' write raised, the same consumer brought a later job
\* to a terminal status.
C5_Witness ==
    \E a \in lost, b \in DOMAIN jobs :
        /\ a < b
        /\ Terminal(b)
        /\ \E t \in TaskIds : InLoop(t)
        /\ nstarted = 1

\* The step answered a delete or a rename request.
RouteStep == resp'.route \in {"delete", "rename"}
RemoteWrites == {"delete_user_job", "rename_user_job"}
LocalWrites == {"cleanup_job_files", "delete_job", "rename_job"}
\* The request's remote write returned / raised, by its call log.
RemoteReturned(log) == \E i \in 1..Len(log) : log[i].op \in RemoteWrites /\ log[i].ok
RemoteRaised(log) == \E i \in 1..Len(log) : log[i].op \in RemoteWrites /\ ~log[i].ok
\* The step changed the local rows or the local files.
LocalChanged ==
    jobs' # jobs \/ uploads' # uploads \/ results' # results \/ outdirs' # outdirs

\* C8: in every rename or delete request, each local write comes after a
\* remote write that returned, the local rows and files change only if the
\* remote write returned, and when the remote write raises the answer is 502
\* and the local rows and files are what they were.
C8_RemoteFirst ==
    [][ RouteStep =>
          /\ \A k \in 1..Len(calls') :
                calls'[k].op \in LocalWrites =>
                    \E i \in 1..(k - 1) : calls'[i].op \in RemoteWrites /\ calls'[i].ok
          /\ LocalChanged => RemoteReturned(calls')
          /\ RemoteRaised(calls') => (resp'.status = 502 /\ ~LocalChanged) ]_vars

\* The remote write of a request raised, the answer was 502, and the user's
\* local row, its upload and the remote row are all still there.
C8_Witness ==
    /\ resp.status = 502
    /\ RemoteRaised(calls)
    /\ \E id \in DOMAIN jobs \cap DOMAIN remote :
          jobs[id].user_id = remote[id].user_id /\ id \in uploads

\* C9: a request whose remote rename or delete returned is answered with the
\* success response, 200 for rename and 204 for delete, whatever the local
\* calls after it did.
C9_LocalFailureNonFatal ==
    RemoteReturned(calls) =>
        resp.status = (IF resp.route = "rename" THEN 200 ELSE 204)

Owns(tbl, user, id) == id \in DOMAIN tbl /\ tbl[id].user_id = user
\* The local row of that id is a guest's.
GuestLocal(id) == id \in DOMAIN jobs /\ jobs[id].user_id = NoUser
\* The step left the local and the remote store and the files as they were.
NothingWritten ==
    /\ UNCHANGED <<jobs, uploads, results, outdirs, remote, objects>>
    /\ \A k \in 1..Len(calls') : calls'[k].op \notin RemoteWrites \cup LocalWrites

\* C11: a rename or delete request of an authenticated user for a job id the
\* user has no remote row of gets an answer that does not depend on whether
\* another user has a row of that id: 404 (403 for a delete of a local guest
\* job, 502 without a Supabase client), the same calls are made, and nothing
\* is written.
C11_NoOwnershipProbe ==
    [][ (/\ RouteStep
         /\ resp'.user \in Users
         /\ resp'.job \in Jobs
         /\ ~Owns(remote, resp'.user, resp'.job)) =>
            /\ resp'.status =
                  IF resp'.route = "delete" /\ GuestLocal(resp'.job) THEN 403
                  ELSE IF supabase = Null THEN 502
                  ELSE 404
            /\ resp'.status = 404 =>
                  calls' = IF resp'.route = "delete"
                           THEN <<Call("get_job", TRUE), Call("get_user_job", TRUE)>>
                           ELSE <<Call("get_user_job", TRUE)>>
            /\ NothingWritten ]_vars

\* A user was answered 404 for a job id another user has a remote row of.
C11_Witness ==
    /\ resp.route \in {"delete", "rename"}
    /\ resp.status = 404
    /\ resp.user \in Users
    /\ resp.job \in DOMAIN remote
    /\ remote[resp.job].user_id # resp.user

\* C12: no rename or delete request, whoever sends it, removes the local row
\* of a guest job, changes any of its fields or removes its upload.
C12_GuestJobsUntouched ==
    [][ RouteStep =>
          \A id \in DOMAIN jobs :
              jobs[id].user_id = NoUser =>
                  /\ id \in DOMAIN jobs'
                  /\ jobs'[id] = jobs[id]
                  /\ id \in uploads => id \in uploads' ]_vars

\* A user with a remote row of the id of a local guest job asked to delete it
\* and was refused, and the guest row and its upload are there.
C12_Witness ==
    /\ resp.route = "delete"
    /\ resp.status = 403
    /\ resp.job \in DOMAIN remote
    /\ remote[resp.job].user_id = resp.user
    /\ GuestLocal(resp.job)
    /\ resp.job \in uploads

\* C13: an authenticated rename or delete request for a job that exists
\* locally as a guest job is not answered 404.
C13_GuestRejectedDistinctly ==
    (/\ resp.route \in {"delete", "rename"}
     /\ resp.user \in Users
     /\ resp.job \in Jobs
     /\ GuestLocal(resp.job)) => resp.status # 404

\* The remote rows a user owns.
RemoteRowsOf(user) == {j \in DOMAIN remote : remote[j].user_id = user}

\* C17: an authenticated upload made while the user owns MAX_USER_SLOTS or
\* more remote rows is answered 409, creates no job row, saves no upload and
\* enqueues nothing; an upload with no identity is never answered 409.
C17_QuotaRejects ==
    [][ resp'.route = "extract" =>
          /\ (/\ resp'.user \in Users
              /\ supabase # Null
              /\ Cardinality(RemoteRowsOf(resp'.user)) >= 5) =>
                 /\ resp'.status = 409
                 /\ UNCHANGED <<jobs, nextId, queue, uploads>>
          /\ resp'.user = NoUser => resp'.status # 409
          /\ resp'.status = 409 => UNCHANGED <<jobs, nextId, queue, uploads>> ]_vars

\* An upload of a user who owns five remote rows was answered 409.
C17_Witness ==
    /\ resp.route = "extract"
    /\ resp.status = 409
    /\ resp.user \in Users
    /\ Cardinality(RemoteRowsOf(resp.user)) = 5

\* C18: no user ever owns more than MAX_USER_SLOTS remote rows.
C18_QuotaNeverExceeded ==
    \A u \in Users : Cardinality(RemoteRowsOf(u)) <= 5

\* C19: after create_job(filename, upload_path, user_id), get_job of the
\* returned id yields one row: status 'queued', current_page 0, total_pages 0,
\* total_components 0, result_path and error null, and the filename,
\* upload_path and user_id that were given.  get_job of an id not yet created
\* yields nothing, a deleted id yields nothing from then on.
C19_CreateThenGet ==
    /\ [][ resp'.route = "create_job" =>
             get_job(jobs', resp'.job) =
                 << [user_id |-> calls'[1].user_id, status |-> "queued",
                     filename |-> calls'[1].filename,
                     upload_path |-> calls'[1].upload_path,
                     result_path |-> Null, error |-> Null, current_page |-> 0,
                     total_pages |-> 0, total_components |-> 0,
                     created_at |-> isoformat(now)] >> ]_vars
    /\ [][ \A id \in Jobs :
             (id < nextId /\ get_job(jobs, id) = <<>>) => get_job(jobs', id) = <<>> ]_vars
    /\ [](\A id \in Jobs : id >= nextId => get_job(jobs, id) = <<>>)

\* A user's job was created and read back, and an earlier job was deleted.
C19_Witness ==
    /\ resp.route = "create_job"
    /\ resp.user = "u1"
    /\ Len(get_job(jobs, resp.job)) = 1
    /\ \E id \in Jobs : id < resp.job /\ get_job(jobs, id) = <<>>

\* C20: update_status with a status outside {queued, processing, completed,
\* failed, delivered} raises, executes no statement and leaves every row as it
\* was.
C20_InvalidStatusRejected ==
    [][ (/\ resp'.route = "update_status"
         /\ calls'[1].status \notin
               {"queued", "processing", "completed", "failed", "delivered"}) =>
            /\ ~calls'[1].ok
            /\ Len(calls') = 1
            /\ jobs' = jobs ]_vars

\* update_status('done') was refused for a job whose row exists.
C20_Witness ==
    /\ resp.route = "update_status"
    /\ ~calls[1].ok
    /\ calls[1].status = "done"
    /\ resp.job \in DOMAIN jobs

\* C14: during upload_components_to_supabase, whatever the number of
\* components, at most 8 storage uploads are in flight at any moment (and at
\* most 8 tasks are inside the semaphore, uploading or sleeping a backoff).
InFlight == {c \in DOMAIN uptasks : uptasks[c].st = "uploading"}
InsideSem == {c \in DOMAIN uptasks : uptasks[c].st \in {"uploading", "sleeping"}}
C14_BoundedConcurrency ==
    /\ Cardinality(InFlight) <= 8
    /\ Cardinality(InsideSem) <= 8

\* Eight uploads are in flight and a ninth task is kept waiting.
C14_Witness ==
    /\ Cardinality(InFlight) = 8
    /\ \E c \in DOMAIN uptasks : uptasks[c].st = "waiting"

\* C15: an upload is called again only after a failure and at most 3 times
\* in all, and never after it succeeded; a call that returned has every
\* upload succeeded within 3 calls and exactly one meta entry per component
\* uploaded; an upload that failed 3 times makes the call raise that upload's
\* error, never return.
MetaEntries(c) == Cardinality({i \in DOMAIN meta : meta[i] = c})
C15_RetryUntilSuccess ==
    /\ \A c \in DOMAIN uptasks :
          /\ uptasks[c].calls <= 3
          /\ uptasks[c].stored <= 1
          /\ uptasks[c].stored = 1 <=> uptasks[c].st = "done"
          /\ uptasks[c].st = "raised" <=>
                (uptasks[c].calls = 3 /\ uptasks[c].stored = 0
                    /\ uptasks[c].st \notin {"uploading", "sleeping"})
          /\ uptasks[c].st = "raised" =>
                /\ batch.st \in {"gathering", "raised"}
                /\ batch.err # <<>>
    /\ batch.st = "returned" =>
          /\ \A c \in DOMAIN uptasks :
                uptasks[c].stored = 1 /\ uptasks[c].calls <= 3 /\ MetaEntries(c) = 1
          /\ Len(meta) = Cardinality(DOMAIN uptasks)
    /\ batch.st = "raised" =>
          \E c \in DOMAIN uptasks :
             /\ uptasks[c].st = "raised"
             /\ batch.err = <<[comp |-> c, attempt |-> 2]>>

\* The call returned although one upload failed twice before it succeeded.
C15_Witness ==
    /\ batch.st = "returned"
    /\ \E c \in DOMAIN uptasks :
          uptasks[c].calls = 3 /\ uptasks[c].stored = 1 /\ MetaEntries(c) = 1

\* C16: when upload_components_to_supabase has returned, no task it created
\* is still waiting, uploading or sleeping, and none has raised.
C16_ReturnedMeansAllDone ==
    batch.st = "returned" =>
        /\ \A c \in DOMAIN uptasks :
              uptasks[c].st \notin {"waiting", "uploading", "sleeping", "raised"}
        /\ sem = 8

\* The call returned for a batch larger than the semaphore, with a retry.
C16_Witness ==
    /\ batch.st = "returned"
    /\ Cardinality(DOMAIN uptasks) > 8
    /\ batch.failed > 0

DequeueStep == queue # <<>> /\ queue' = Tail(queue)
C30_VanishedJobSkipped ==
    [][ (DequeueStep /\ Head(queue) \notin DOMAIN jobs) =>
            /\ dbq' = dbq
            /\ jobs' = jobs
            /\ outdirs' = outdirs
            /\ thread' = thread
            /\ loopq' = loopq
            /\ \E t \in TaskIds : tasks[t].pc = "wait" /\ tasks'[t] = [pc |-> "wait", job |-> 0]
            /\ \A t \in TaskIds : tasks'[t].job # Head(queue) ]_vars

\* A consumer has skipped a deleted job and taken up the one queued behind it.
C30_Witness ==
    /\ 1 \notin DOMAIN jobs
    /\ thread[1].st = "none"
    /\ nextId > 2
    /\ queue = <<>>
    /\ \E t \in TaskIds : tasks[t].job = 2

\* C29: the stored current_page and total_pages of a job never decrease: no
\* call of update_progress or update_status leaves a smaller value than the
\* one stored before it.
C29_ProgressMonotonic ==
    [][ \A id \in DOMAIN jobs \cap DOMAIN jobs' :
            /\ jobs'[id].current_page >= jobs[id].current_page
            /\ jobs'[id].total_pages >= jobs[id].total_pages ]_vars

\* C21: get_old_job_paths and cleanup_old_jobs select exactly the rows without
\* owner created before now - max_age_hours: never a row with an owner, never
\* a row created at the present instant; cleanup_old_jobs returns the number
\* of rows selected, which get_job no longer finds, and leaves every other row
\* as it was.
Times == {[h |-> h, us |-> us] : h \in 0..(MaxAge + MaxHours), us \in {0, 1}}
Earlier(t, u) == t.h < u.h \/ (t.h = u.h /\ t.us < u.us)
OldGuestJobs(max_age_hours) ==
    {id \in DOMAIN jobs :
        /\ jobs[id].user_id = NoUser
        /\ \E t \in Times : /\ isoformat(t) = jobs[id].created_at
                            /\ Earlier(t, [h |-> now.h - max_age_hours, us |-> now.us])}
C21_SweepSelectsOldGuestJobs ==
    [][ /\ (resp'.route = "get_old_job_paths" /\ now' = now) =>
              /\ {r.id : r \in calls'[1].rows} = OldGuestJobs(calls'[1].max_age_hours)
              /\ \A r \in calls'[1].rows :
                    /\ r.upload_path = jobs[r.id].upload_path
                    /\ r.result_path = jobs[r.id].result_path
                    /\ jobs[r.id].created_at # isoformat(now)
              /\ jobs' = jobs
        /\ (resp'.route = "cleanup_old_jobs" /\ now' = now) =>
              /\ DOMAIN jobs' = DOMAIN jobs \ OldGuestJobs(calls'[1].max_age_hours)
              /\ calls'[1].count = Cardinality(OldGuestJobs(calls'[1].max_age_hours))
              /\ \A id \in OldGuestJobs(calls'[1].max_age_hours) : get_job(jobs', id) = <<>>
              /\ \A id \in DOMAIN jobs' : jobs'[id] = jobs[id]
              /\ \A id \in DOMAIN jobs :
                    (jobs[id].user_id # NoUser \/ jobs[id].created_at = isoformat(now))
                        => id \in DOMAIN jobs' ]_vars

\* A sweep has removed an old guest job and kept a user's job of the same age.
C21_Witness ==
    /\ resp.route = "cleanup_old_jobs"
    /\ calls[1].count = 1
    /\ \E id \in DOMAIN jobs :
          /\ jobs[id].user_id # NoUser
          /\ TextLess(jobs[id].created_at, isoformat(HoursBefore(now, calls[1].max_age_hours)))

\* C22: init() on a jobs table without total_components and/or user_id adds
\* each missing column, existing rows reading 0 / null in it and keeping every
\* other value; on an up-to-date table it changes nothing; once the store is
\* open every row has the columns of a freshly created store, and a completion
\* with total_components reads back what was written.
C22_MigratedStoreAsFresh ==
    /\ [][ (conn = "closed" /\ conn' = "open") =>
             /\ columns' = JobColumns
             /\ DOMAIN jobs' = DOMAIN jobs
             /\ \A id \in DOMAIN jobs :
                   /\ \A f \in DOMAIN jobs[id] : jobs'[id][f] = jobs[id][f]
                   /\ "total_components" \notin columns => jobs'[id].total_components = 0
                   /\ "user_id" \notin columns => jobs'[id].user_id = NoUser
             /\ columns = JobColumns => jobs' = jobs ]_vars
    /\ [](conn = "open" =>
             /\ columns = JobColumns
             /\ \A id \in DOMAIN jobs : DOMAIN jobs[id] = JobColumns)
    /\ [][ (/\ resp'.route = "update_status"
            /\ resp'.job \in DOMAIN jobs
            /\ calls'[1].ok
            /\ "total_components" \in DOMAIN calls'[1].kw) =>
               /\ Len(get_job(jobs', resp'.job)) = 1
               /\ get_job(jobs', resp'.job)[1].total_components =
                     calls'[1].kw.total_components
               /\ get_job(jobs', resp'.job)[1].status = calls'[1].status ]_vars

\* A table without either column, holding a row, has just been opened.
C22_Witness ==
    /\ resp.route = "init"
    /\ calls[1].had = JobColumns \ {"total_components", "user_id"}
    /\ OldJob \in DOMAIN jobs
    /\ jobs[OldJob].total_components = 0
    /\ jobs[OldJob].user_id = NoUser

\* C27: delete_user_job deletes the remote row only after it has listed the
\* objects under the owner/job prefix and removed every one listed, and only
\* the row of that id and owner; the count it returns is the number of objects
\* it removed; when the listing or the removal raises, no row is deleted.
C27_ObjectsBeforeRow ==
    /\ [][ \A id \in DOMAIN remote \ DOMAIN remote' :
              /\ rdel.pc = "removed"
              /\ rdel'.pc = "done"
              /\ id = rdel.job
              /\ remote[id].user_id = rdel.user
              /\ rdel.files \cap objects = {}
              /\ DOMAIN remote' = DOMAIN remote \ {id} ]_vars
    /\ [](rdel.pc \in {"removed", "done"} => rdel.deleted = rdel.removed)
    /\ [][ (rdel' # rdel /\ rdel.pc # "removed" /\ rdel'.pc = "raised")
              => remote' = remote ]_vars

\* A delete has removed the job's objects and then its row.
C27_Witness ==
    /\ rdel.pc = "done"
    /\ rdel.deleted > 0
    /\ rdel.job \notin DOMAIN remote
    /\ rdel.files \cap objects = {}

\* C24: the result and components routes answer 200 only for a job whose row
\* is 'completed' at the request and whose result file exists, 409 for a row in
\* any other status, 404 for an id without row or a completed job without
\* result file.
ReadsResult == resp'.route \in {"result", "components"} /\ resp'.job # BadId
C24_ResultOnlyWhenCompleted ==
    [][ ReadsResult =>
          LET id == resp'.job
          IN  /\ resp'.status \in {200, 409, 404}
              /\ resp'.status = 200 <=>
                    (/\ id \in DOMAIN jobs
                     /\ jobs[id].status = "completed"
                     /\ jobs[id].result_path # Null
                     /\ id \in results)
              /\ resp'.status = 409 <=>
                    (id \in DOMAIN jobs /\ jobs[id].status # "completed")
              /\ resp'.status = 404 <=>
                    \/ id \notin DOMAIN jobs
                    \/ (/\ id \in DOMAIN jobs
                        /\ jobs[id].status = "completed"
                        /\ (jobs[id].result_path = Null \/ id \notin results)) ]_vars

\* One job's result was served while the other job, still queued, exists.
C24_Witness ==
    /\ resp.route = "components"
    /\ resp.status = 200
    /\ page.total = 3
    /\ \E id \in DOMAIN jobs : jobs[id].status = "queued"

\* C25: a status, result or components request leaves every job row, the
\* upload files, the output directories and the result files as they were.
C25_ReadsChangeNothing ==
    [][ (resp'.route \in {"status", "result", "components"}) =>
            /\ jobs' = jobs
            /\ uploads' = uploads
            /\ outdirs' = outdirs
            /\ results' = results
            /\ queue' = queue ]_vars

\* A completed job's result was fetched and the job, its upload and its
\* output directory are all still there.
C25_Witness ==
    /\ resp.route = "result"
    /\ resp.status = 200
    /\ jobs[resp.job].status = "completed"
    /\ resp.job \in uploads
    /\ resp.job \in outdirs
    /\ resp.job \in results

\* C23: for any offset and limit, a components response holds exactly the
\* components at positions [offset, offset + limit) of the flattening of pages
\* then components, has_more is (offset + limit < total), requests with disjoint
\* windows share no component, fetching from offset 0 in steps of limit while
\* has_more returns every component exactly once, and an offset at or beyond
\* the total gives an empty batch with has_more false.
Window(offset, limit) == {i \in 0..(MaxTotal + 1) : offset <= i /\ i < offset + limit}
AtPositions(seq, offset, limit) ==
    LET lo == IF offset < 0 THEN 0 ELSE offset
        hi == IF offset + limit > Len(seq) THEN Len(seq) ELSE offset + limit
    IN  IF hi <= lo THEN <<>> ELSE [j \in 1..(hi - lo) |-> seq[lo + j]]
Range(seq) == {seq[i] : i \in DOMAIN seq}
Served == resp.route = "components" /\ resp.status = 200
WindowOf(p) == Window(p.offset, p.limit)
C23_Pagination ==
    /\ [](Served =>
            /\ page.total = Len(Flatten(result_data))
            /\ page.components = AtPositions(Flatten(result_data), page.offset, page.limit)
            /\ page.has_more = (page.offset + page.limit < page.total)
            /\ page.offset >= page.total => (page.components = <<>> /\ ~page.has_more))
    /\ []((Served /\ fetched.st = "done") =>
            /\ Len(fetched.got) = Len(Flatten(result_data))
            /\ \A c \in Range(Flatten(result_data)) :
                  Cardinality({i \in DOMAIN fetched.got : fetched.got[i] = c}) = 1)
    /\ [][ (Served /\ Served' /\ WindowOf(page) \cap WindowOf(page') = {}) =>
              Range(page.components) \cap Range(page'.components) = {} ]_vars

\* C26: every valid id, in dashed or undashed form, normalizes to the same
\* IdLen-character lowercase hex id, normalizing that again changes nothing,
\* every route works on the row of the normalized id (the feedback row stores
\* it), and a string that is no valid id is answered 422 (401 by delete and
\* rename without authentication, which they check first) with no store or
\* remote call made.
IdRoutes == {"status", "result", "components", "delete", "rename", "feedback"}
IsLowerHex(s) == \A i \in DOMAIN s : \E d \in 1..16 : HexChars[d] = s[i]
\* A valid id: IdLen hex digits, dashes apart.
ValidId(s) == Len(Undashed(s)) = IdLen /\ \A i \in DOMAIN Undashed(s) : IsHex(Undashed(s)[i])
\* The dashed form, its dash after the first digit.
Dashed(hex) == <<Head(hex), "-">> \o Tail(hex)
C26_NormalizedForms ==
    ValidId(request) =>
        LET key == _normalize_job_id(request)
        IN  /\ key # Unprocessable
            /\ Len(key) = IdLen
            /\ IsLowerHex(key)
            /\ ValueOf(key) = ValueOf(Undashed(request))
            /\ _normalize_job_id(key) = key
            /\ _normalize_job_id(Dashed(key)) = key
C26_RoutesUseNormalizedId ==
    (ValidId(request) /\ resp'.route \in IdRoutes) =>
        /\ resp'.status # 401 => resp'.job = ValueOf(Undashed(request))
        /\ resp'.status # 422
        /\ feedback' # feedback => feedback' = Append(feedback, ToHex(resp'.job, IdLen))
        /\ \A id \in (DOMAIN remote) \ (DOMAIN remote') : id = ValueOf(Undashed(request))
        /\ \A id \in (DOMAIN jobs) \ (DOMAIN jobs') : id = ValueOf(Undashed(request))
C26_InvalidIdRejected ==
    (~ValidId(request) /\ resp'.route \in IdRoutes) =>
        /\ resp'.status = 422 \/ (resp'.status = 401 /\ resp'.route \in {"delete", "rename"})
        /\ calls' = <<>>
        /\ UNCHANGED <<jobs, remote, objects, feedback>>
C26_JobIdNormalization ==
    /\ []C26_NormalizedForms
    /\ [][C26_RoutesUseNormalizedId]_vars
    /\ [][C26_InvalidIdRejected]_vars

\* C31: a local row of an authenticated job that is 'completed' has its remote
\* row and all its component objects: the worker uploads and inserts before it
\* marks the row.
C31_CompletedImpliesSaved ==
    \A id \in DOMAIN jobs :
        (jobs[id].user_id # NoUser /\ jobs[id].status = "completed") =>
            /\ id \in DOMAIN remote
            /\ put_objects(jobs[id].user_id, id) \subseteq objects

\* C32: the list upload_components_to_supabase returns has exactly one entry
\* per input component with a non-empty base64, in page-then-component order,
\* each with the component's id, page number, category, label, confidence and
\* bbox and the public URL of the object path its bytes were uploaded to; a
\* component without inline bytes has no entry and no upload.
WithBytes == SelectSeq(InOrder(result_data),
                       LAMBDA e : e.comp.base64 # Missing /\ e.comp.base64 # "")
C32_MetaMatchesInput ==
    batch.st = "returned" =>
        /\ Len(meta) = Len(WithBytes)
        /\ Len(uptasks) = Len(WithBytes)
        /\ \A i \in DOMAIN meta :
              /\ meta[i].id = WithBytes[i].comp.id
              /\ meta[i].page_number = WithBytes[i].page_number
              /\ WithBytes[i].comp.category # Missing =>
                     meta[i].category = WithBytes[i].comp.category
              /\ meta[i].original_label = WithBytes[i].comp.original_label
              /\ meta[i].confidence = WithBytes[i].comp.confidence
              /\ meta[i].bbox = WithBytes[i].comp.bbox
              /\ meta[i].url = [base |-> SupabaseUrl, prefix |-> "/storage/v1/object/public/",
                                bucket |-> "scans",
                                path |-> <<resp.user, resp.job, meta[i].id>>]
              /\ uptasks[i].path = meta[i].url.path
              /\ uptasks[i].data = WithBytes[i].comp.base64
              /\ meta[i].url.path \in objects

\* A result of two pages, with a component that has no bytes between two that
\* have, was uploaded.
C32_Witness ==
    /\ batch.st = "returned"
    /\ Len(result_data) = 2
    /\ Len(meta) = 2
    /\ Len(InOrder(result_data)) > 2
    /\ meta[1].page_number # meta[2].page_number

\* C33: cleanup_job_files returns for every pair of paths, a second call with the same paths
\* changes nothing, a file path is deleted and its parent directory removed
\* only if that left it empty, a directory path is removed with all below it,
\* and nothing else is touched.
CleanedPaths(c) == {c.upload_path, c.result_path} \ {NoPath}
Writes(e) ==
    CASE e.call.op = "update_status" -> {"status"} \cup DOMAIN e.call.kw
      [] e.call.op = "update_progress" -> {"current_page", "total_pages"}
      [] e.call.op = "rename_job" -> {"filename"}
      [] OTHER -> {}
Written(e, col) ==
    CASE e.call.op = "update_status" ->
            IF col = "status" THEN e.call.status ELSE e.call.kw[col]
      [] e.call.op = "update_progress" ->
            IF col = "current_page" THEN e.call.cur ELSE e.call.tot
      [] e.call.op = "rename_job" -> e.call.filename
Born(id) ==
    {k \in DOMAIN journal : journal[k].call.op = "create_job" /\ journal[k].id = id}
Gone(id) ==
    {k \in DOMAIN journal : journal[k].call.op = "delete_job" /\ journal[k].id = id
                            /\ \E b \in Born(id) : b < k}
WritersOf(id, col) ==
    {k \in DOMAIN journal : /\ journal[k].id = id
                            /\ col \in Writes(journal[k])
                            /\ \E b \in Born(id) : b < k}
Latest(ks) == CHOOSE k \in ks : \A other \in ks : other <= k

\* C35: each mutating store call is one update, seen by every get_job after
\* the call returned; calls of different tasks are serialized and none is lost:
\* a row is there exactly when it was created and not deleted since, each of
\* its columns holds the value of the last call that wrote it (the inserted
\* value when none did), a returned call has had its statement executed, and
\* once every call has returned nothing is left uncommitted.
C35_SerializedWrites ==
    /\ \A id \in Jobs :
        /\ get_job(jobs, id) # <<>> <=> (Born(id) # {} /\ Gone(id) = {})
        /\ get_job(jobs, id) # <<>> =>
              LET row == get_job(jobs, id)[1]
                  made == journal[Latest(Born(id))].call
              IN  \A col \in DOMAIN row :
                     row[col] =
                        IF WritersOf(id, col) = {}
                        THEN NewRow(made.filename, UploadPath(id, made.filename), made.user)[col]
                        ELSE Written(journal[Latest(WritersOf(id, col))], col)
    /\ \A t \in CallerTasks :
          callers[t].pc = "returned" =>
              \E k \in DOMAIN journal :
                  journal[k].task = t /\ journal[k].call = callers[t].call
    /\ (\A t \in CallerTasks : callers[t].pc \in {"idle", "returned"}) => disk = jobs
\* The worker and a handler have both written the same row, neither call
\* having committed yet.
C35_Witness ==
    /\ callers["worker"].pc = "commit"
    /\ callers["handler"].pc = "commit"
    /\ callers["handler"].call.op = "rename_job"
    /\ callers["worker"].call.id = callers["handler"].call.id
    /\ callers["worker"].call.id \in DOMAIN jobs
    /\ jobs # disk

\* C36: once upload_components_to_supabase has raised because an upload
\* exhausted its retries, no upload of the batch is in flight, asleep before a
\* retry or still waiting for the semaphore.
C36_NoUploadAfterRaise ==
    batch.st = "raised" =>
        \A c \in DOMAIN uptasks : uptasks[c].st \in {"done", "raised"}

\* C37: the delete route removes a local row, or files of it, only when that
\* row's user_id is the requester.
C37_LocalDeleteOnlyOfOwnRow ==
    [][(/\ resp'.route = "delete"
        /\ resp'.job \in DOMAIN jobs
        /\ \/ jobs' # jobs
           \/ uploads' # uploads
           \/ results' # results
           \/ outdirs' # outdirs)
          => jobs[resp'.job].user_id = resp'.user]_vars

\* C38: a row deleted while its id is queued or its pipeline is running is
\* never created again: whatever the worker writes afterwards, get_job finds no
\* row under an id that was given out and whose row is gone.
C38_DeletedStaysDeleted ==
    [][\A id \in Jobs :
          (id < nextId /\ get_job(jobs, id) = <<>>) => get_job(jobs', id) = <<>>]_vars
\* The row of a job is gone, its pipeline has run to the end and the worker's
\* terminal write for it has been executed.
C38_Witness ==
    \E id \in Jobs :
        /\ id < nextId
        /\ get_job(jobs, id) = <<>>
        /\ id \in results
        /\ thread[id].st = "finished"
        /\ loopq = <<>>
        /\ dbq = <<>>
        /\ \A t \in TaskIds : tasks[t].job # id

\* C39: the purge selects by created_at and user_id only: a purge removes
\* every guest row created before its cutoff, whatever the row's status, and
\* no other row.
C39_PurgeIgnoresStatus ==
    [][(calls' # calls /\ calls' # <<>> /\ calls'[1].op = "cleanup_old_jobs")
          => LET cutoff == isoformat(HoursBefore(now, calls'[1].max_age_hours))
             IN  \A id \in DOMAIN jobs :
                    id \notin DOMAIN jobs'
                        <=> (/\ jobs[id].user_id = NoUser
                             /\ TextLess(jobs[id].created_at, cutoff))]_vars
\* A purge has removed the row of a guest job whose pipeline is still running.
C39_Witness ==
    /\ calls # <<>>
    /\ calls[1].op = "cleanup_old_jobs"
    /\ calls[1].count > 0
    /\ \E id \in Jobs :
          /\ id < nextId
          /\ id \notin DOMAIN jobs
          /\ thread[id].st = "running"
          /\ thread[id].rep > 0

\* C40: ids leave the queue only at its head and only when a consumer is at
\* queue.get(), and enter it only at its tail, so queued ids keep their order
\* while the worker is not started or stopped; the steps of start() and stop()
\* leave the queue as it is; the job that was in flight at stop() is neither
\* queued nor taken up by a live consumer again.
C40_QueueOnlyConsumed ==
    /\ [][\/ queue' = queue
          \/ /\ Len(queue') = Len(queue) + 1
             /\ SubSeq(queue', 1, Len(queue)) = queue
          \/ /\ queue # <<>>
             /\ queue' = Tail(queue)
             /\ \E t \in TaskIds : tasks[t].pc = "wait"]_vars
    /\ [][(stopper' # stopper \/ task' # task \/ nstarted' # nstarted)
             => queue' = queue]_vars
    /\ [](\A i \in interrupted :
             /\ \A k \in DOMAIN queue : queue[k] # i.job
             /\ \A t \in TaskIds : Live(t) => tasks[t].job # i.job)
\* stop() interrupted the first consumer at job 1 while job 2 was queued; the
\* consumer of a later start() has taken job 2.
C40_Witness ==
    /\ nstarted = 2
    /\ tasks[1].pc = "done"
    /\ \E i \in interrupted : i.job = 1
    /\ Live(2)
    /\ tasks[2].job = 2
    /\ queue = <<>>

====
